---- MODULE Spec2Model ----
(***************************************************************************)
(* Order / cart / inventory workflow of the perfume store backend          *)
(* (src/cart.py) with its token middleware, over a relational store with   *)
(* transactions.  The committed tables are the state; every HTTP handler   *)
(* is one action in the sequential specification Spec, and is split into   *)
(* its SQL statements in the interleaved specifications.                   *)
(***************************************************************************)
EXTENDS Integers, Sequences, FiniteSets, TLC

(***************************************************************************)
(* Bounds of the model                                                     *)
(***************************************************************************)
MaxStock == 2      \* initial perfumes.quantity of the stocked perfumes
MaxQty == 2        \* largest quantity a request asks for
MaxOrders == 1     \* orders AUTO_INCREMENT values handed out
MaxTime == 3       \* the clock runs from 0 to MaxTime, in half hours
MaxLogins == 2     \* tokens handed out

(***************************************************************************)
(* Fixed data: users, catalog                                              *)
(***************************************************************************)
ROLE_ADMIN == 1
ROLE_CUSTOMER == 2

Customers == {1, 2}
Admins == {3}
Users == Customers \cup Admins
NoUser == 0

RoleOf(u) == IF u \in Admins THEN ROLE_ADMIN ELSE ROLE_CUSTOMER

Null == "NULL"                 \* SQL NULL / Python None
Falsy(s) == s \in {Null, ""}   \* Python truthiness of an optional string

\* perfumes rows: 1 and 2 are on sale, 3 is withdrawn (available = 0),
\* id 4 names no row.
PerfumeIds == {1, 2, 3}
MissingPerfume == 4
CatalogSize(p) == IF p = 1 THEN "50ml" ELSE Null
CatalogAvailable(p) == p \in {1, 2}

VARIABLES
    perfumes,      \* perfumes table: id -> [quantity, size, available]
    carts,         \* carts table: set of [user_id, perfume_id, size, quantity]
    orders,        \* orders table: set of [id, user_id, total_amount, payment_method, status]
    order_items,   \* order_items table: set of [order_id, line, perfume_id, quantity, size]
    payment_details, \* payment_details table: set of [order_id, payment_method, card_last4,
                     \*   card_holder_name, expiry]
    auto_inc,      \* orders AUTO_INCREMENT counter: last id handed out
    now,           \* the clock jwt.decode compares a token's exp with
    req,           \* the request last handled: [op, hdr]
    resp,          \* the response sent to it: [op, user, code, error, body]
    ledger,        \* history: per user and cart key, the accepted additions
                   \* since the key's rows were last deleted
    conns,         \* the open connections of handlers that run interleaved:
                   \* each one's position, locals and uncommitted writes
    issued,        \* the tokens the logins have handed out
    users          \* users table: set of [id, username, email, phone_number,
                   \*   password_hash, role_id]

vars == <<perfumes, carts, orders, order_items, payment_details, auto_inc,
          now, req, resp, ledger, conns, issued, users>>
tables == <<perfumes, carts, orders, order_items, payment_details>>

\* A connection of an interleaved handler.  `snap`: the consistent-read
\* snapshot (none before the first SELECT); `own`: the perfumes rows the
\* transaction has updated and holds locked; `lines`, `rows`: the
\* order_items and carts rows it has written; `keys`: the carts keys it
\* holds locked; `code`: the response once the handler has returned.
ConnIds == {1, 2}
IdleConn ==
    [pc |-> "idle", user_id |-> NoUser, items |-> <<>>, i |-> 0, order_id |-> 0,
     payment_method |-> "", snap |-> <<>>, own |-> {}, lines |-> {}, rows |-> {},
     keys |-> {}, stock |-> 0, size |-> Null, total |-> 0, added |-> 0, errors |-> 0,
     total_amount |-> 0,
     card |-> [cardName |-> "", cardNumber |-> <<>>, expiry |-> "", cvv |-> <<>>],
     code |-> 0]

\* The committed contents of the tables a transaction can write.
Store == [perfumes |-> perfumes, carts |-> carts, orders |-> orders,
          order_items |-> order_items, payment_details |-> payment_details]

Apply(s) ==
    /\ perfumes' = s.perfumes
    /\ carts' = s.carts
    /\ orders' = s.orders
    /\ order_items' = s.order_items
    /\ payment_details' = s.payment_details

(***************************************************************************)
(* Connection: pymysql opens every connection with autocommit off, so the  *)
(* statements of a handler form one transaction `tx` over the committed    *)
(* store `db` until the handler commits, rolls back, or closes.            *)
(***************************************************************************)
\* fault = 0: get_db_connection fails; fault = k > 0: the k-th statement the
\* handler executes raises; NoFault: the store answers every statement.
NoFault == 0 - 1

conn_commit(db, tx) == tx
\* A rollback that does nothing, as on a connection opened with autocommit.
conn_rollback_autocommit(db, tx) == tx
conn_rollback(db, tx) == db
\* Closing the connection keeps what the transaction wrote, as with autocommit.
conn_close_autocommit(db, tx) == tx
\* An uncommitted transaction is discarded when its connection closes.
conn_close(db, tx) == db

(***************************************************************************)
(* Token service and access-control middleware                             *)
(***************************************************************************)
\* An Authorization header value.  `bearer`: the value starts with
\* "bearer " in any letter case; `tok` is the token text that follows (or
\* the whole value).  sig = "good": signed with Config.SECRET_KEY.
NoHeader == [present |-> FALSE, bearer |-> FALSE,
             tok |-> [user_id |-> NoUser, role_id |-> 0, sig |-> "bad", exp |-> 0]]

IssuedTokens(t) ==
    {[user_id |-> u, role_id |-> RoleOf(u), sig |-> "good", exp |-> e] :
        u \in Users, e \in {t - 1, t + 1}}
ForgedTokens(t) ==
    {[user_id |-> u, role_id |-> r, sig |-> "bad", exp |-> t + 1] :
        u \in {1, 3}, r \in {ROLE_ADMIN, ROLE_CUSTOMER}}
Headers(t) ==
    {NoHeader} \cup
    {[present |-> TRUE, bearer |-> b, tok |-> k] :
        b \in BOOLEAN, k \in IssuedTokens(t) \cup ForgedTokens(t)}

\* A decoder that accepts the bearer scheme and reads the token after it.
jwt_decode_strips_bearer(hdr, t) ==
    IF hdr.tok.sig # "good" THEN [result |-> "InvalidTokenError"]
    ELSE IF hdr.tok.exp < t THEN [result |-> "ExpiredSignatureError"]
    ELSE [result |-> "ok", data |-> hdr.tok]

\* jwt.decode(value, SECRET_KEY, algorithms=['HS256']): a value with the
\* bearer marker in front is not a three-segment signed token; the
\* signature is verified before the exp claim.
jwt_decode(hdr, t) ==
    IF hdr.bearer \/ hdr.tok.sig # "good" THEN [result |-> "InvalidTokenError"]
    ELSE IF hdr.tok.exp < t THEN [result |-> "ExpiredSignatureError"]
    ELSE [result |-> "ok", data |-> hdr.tok]

Denied(code, error) == [ok |-> FALSE, code |-> code, error |-> error, user_id |-> NoUser]
Granted(data) == [ok |-> TRUE, code |-> 0, error |-> "", user_id |-> data.user_id]

\* The middleware without its role check.
verify_token_any_role(hdr, t, role, denied) ==
    IF ~hdr.present THEN Denied(401, "Token missing")
    ELSE IF hdr.bearer THEN Denied(401, "Use raw token, not Bearer")
    ELSE LET d == jwt_decode(hdr, t) IN
         IF d.result = "ExpiredSignatureError" THEN Denied(401, "Token expired")
         ELSE IF d.result = "InvalidTokenError" THEN Denied(401, "Invalid token")
         ELSE Granted(d.data)

\* A middleware that looks at the role claim before it verifies the token.
verify_token_role_first(hdr, t, role, denied) ==
    IF ~hdr.present THEN Denied(401, "Token missing")
    ELSE IF hdr.bearer THEN Denied(401, "Use raw token, not Bearer")
    ELSE IF hdr.tok.role_id # role THEN Denied(403, denied)
    ELSE LET d == jwt_decode(hdr, t) IN
         IF d.result = "ExpiredSignatureError" THEN Denied(401, "Token expired")
         ELSE IF d.result = "InvalidTokenError" THEN Denied(401, "Invalid token")
         ELSE Granted(d.data)

verify_token(hdr, t, role, denied) ==
    IF ~hdr.present THEN Denied(401, "Token missing")
    ELSE IF hdr.bearer THEN Denied(401, "Use raw token, not Bearer")
    ELSE LET d == jwt_decode(hdr, t) IN
         IF d.result = "ExpiredSignatureError" THEN Denied(401, "Token expired")
         ELSE IF d.result = "InvalidTokenError" THEN Denied(401, "Invalid token")
         ELSE IF d.data.role_id # role THEN Denied(403, denied)
         ELSE Granted(d.data)

verify_customer_token(hdr, t) ==
    verify_token(hdr, t, ROLE_CUSTOMER, "Access denied - Customer only")

verify_admin_token(hdr, t) ==
    verify_token(hdr, t, ROLE_ADMIN, "Access denied - Admin only")

\* `done` is history, not part of the HTTP response: how many items the
\* handler had written when it answered.
Response(op, user, code, error, body) ==
    [op |-> op, user |-> user, code |-> code, error |-> error, body |-> body,
     done |-> 0]
Progress(r, n) == [r EXCEPT !.done = n]
NoBody == [added |-> <<>>, errors |-> <<>>, rows |-> {}, order_id |-> 0, status |-> "",
           total |-> 0]
\* `data`: the items of a POST /cart body, the body of a POST /checkout,
\* the order id and the status arguments of a PATCH of an order's status,
\* the perfume id of a DELETE /cart/<perfume_id>, the limit argument of a
\* GET /recent-orders, <<>> for the other requests.
Request(op, hdr, data) == [op |-> op, hdr |-> hdr, data |-> data]

\* jwt_required / admin_required: the handler does not run; the store is
\* untouched.
Reject(op, v) ==
    /\ resp' = Response(op, NoUser, v.code, v.error, NoBody)
    /\ UNCHANGED <<tables, auto_inc, now, ledger>>

(***************************************************************************)
(* Statement-level bookkeeping of one handler run: `tx` is the             *)
(* transaction's view of the tables, `n` counts the statements executed,   *)
(* `raised` records an exception that left the item loop.                  *)
(***************************************************************************)
Raises(st) == st.n + 1 = st.fault
Exec(st) == [st EXCEPT !.n = @ + 1]
Raise(st) == [st EXCEPT !.raised = TRUE]

(***************************************************************************)
(* Cart Manager: POST /cart                                                *)
(***************************************************************************)
Coalesce(s) == IF s = Null THEN "" ELSE s

\* The same SELECT on another connection: it reads the committed stock,
\* not what the transaction has written.
select_available_perfume_committed(tbl, pid) ==
    {perfumes[i] : i \in {j \in DOMAIN perfumes : j = pid /\ perfumes[j].available}}
\* SELECT quantity, size FROM perfumes WHERE id = %s AND available = 1
select_available_perfume(tbl, pid) ==
    {tbl[i] : i \in {j \in DOMAIN tbl : j = pid /\ tbl[j].available}}

\* SELECT quantity FROM carts WHERE user_id = %s AND perfume_id = %s
\*   AND COALESCE(size, '') = COALESCE(%s, '')
select_cart_rows(tbl, user_id, pid, size) ==
    {r \in tbl : r.user_id = user_id /\ r.perfume_id = pid
                 /\ Coalesce(r.size) = Coalesce(size)}

\* The unique key of carts that ON DUPLICATE KEY UPDATE resolves against.
cart_unique_key(r) == <<r.user_id, r.perfume_id, Coalesce(r.size)>>

\* INSERT INTO carts ... ON DUPLICATE KEY UPDATE quantity = VALUES(quantity),
\*   size = COALESCE(VALUES(size), size)
upsert_cart(tbl, row) ==
    LET dup == {r \in tbl : cart_unique_key(r) = cart_unique_key(row)} IN
    IF dup = {} THEN tbl \cup {row}
    ELSE (tbl \ dup) \cup
         {[r EXCEPT !.quantity = row.quantity,
                    !.size = IF row.size # Null THEN row.size ELSE r.size] : r \in dup}

\* The size as sent, without the fallback to the perfume's own size.
use_size_as_sent(size, db_size) == size
\* use_size = size if size else db_size
use_size(size, db_size) == IF ~Falsy(size) THEN size ELSE db_size

\* new_total = current_qty + qty
new_total(current_qty, qty) == current_qty + qty

\* The ceiling off by one: new_total >= stock.
exceeds_stock_at_stock(total, stock) == total >= stock
\* if new_total > stock: reject
exceeds_stock(total, stock) == total > stock

ItemError(pid, error, stock, have) ==
    [perfume_id |-> pid, error |-> error, stock |-> stock, have |-> have]
AddError(st, e) == [st EXCEPT !.errors = Append(@, e)]

\* One pass of the `for item in items` loop.  kind = "nokey": the item has
\* no perfume_id (KeyError, not caught by the inner except); kind =
\* "invalid": int() raises ValueError/TypeError.
add_one_item(user_id, item, st) ==
    IF item.kind = "nokey" THEN Raise(st)
    ELSE IF item.kind = "invalid" THEN AddError(st, ItemError(0, "Invalid data", 0, 0))
    ELSE IF Raises(st) THEN Raise(st)
    ELSE
    LET s1 == Exec(st)
        pid == item.perfume_id
        qty == IF item.has_quantity THEN item.quantity ELSE 1
        found == select_available_perfume(s1.tx.perfumes, pid)
    IN
    IF found = {} THEN AddError(s1, ItemError(pid, "Perfume not available", 0, 0))
    ELSE IF Raises(s1) THEN Raise(s1)
    ELSE
    LET perfume == CHOOSE x \in found : TRUE
        stock == perfume.quantity
        size == use_size(item.size, perfume.size)
        s2 == Exec(s1)
        current == select_cart_rows(s2.tx.carts, user_id, pid, size)
        current_qty == IF current = {} THEN 0 ELSE (CHOOSE r \in current : TRUE).quantity
        total == new_total(current_qty, qty)
    IN
    IF exceeds_stock(total, stock)
    THEN AddError(s2, ItemError(pid, "Only {stock} in stock (you have {current_qty})",
                               stock, current_qty))
    ELSE IF Raises(s2) THEN Raise(s2)
    ELSE [Exec(s2) EXCEPT
            !.tx.carts = upsert_cart(@, [user_id |-> user_id, perfume_id |-> pid,
                                         size |-> size, quantity |-> total]),
            !.added = Append(@, [perfume_id |-> pid, total_in_cart |-> total,
                                 size |-> size]),
            !.accepted = Append(@, item)]

RECURSIVE add_items_loop(_, _, _)
add_items_loop(user_id, items, st) ==
    IF items = <<>> \/ st.raised THEN st
    ELSE add_items_loop(user_id, Tail(items), add_one_item(user_id, Head(items), st))

\* History of accepted additions: an accepted item counts for the key the
\* contract names, (user, perfume, provided size or else the perfume's
\* canonical size).
RECURSIVE LedgerAdd(_, _, _)
LedgerAdd(l, user_id, accepted) ==
    IF accepted = <<>> THEN l
    ELSE LET item == Head(accepted)
             key == <<user_id, item.perfume_id,
                      Coalesce(IF ~Falsy(item.size) THEN item.size
                               ELSE CatalogSize(item.perfume_id))>>
             qty == IF item.has_quantity THEN item.quantity ELSE 1
             old == {e \in l : e.key = key}
             sum == IF old = {} THEN qty ELSE (CHOOSE e \in old : TRUE).quantity + qty
         IN LedgerAdd((l \ old) \cup {[key |-> key, quantity |-> sum]},
                      user_id, Tail(accepted))

\* A policy without the multi-status outcome.
batch_status_all_or_nothing(added, errors) ==
    IF errors # <<>> THEN 400 ELSE 201
\* if errors and not added: 400; if errors: 207; else 201
batch_status(added, errors) ==
    IF errors # <<>> /\ added = <<>> THEN 400
    ELSE IF errors # <<>> THEN 207
    ELSE 201
batch_message(added, errors) ==
    IF errors # <<>> /\ added = <<>> THEN ""
    ELSE IF errors # <<>> THEN "Partial success"
    ELSE "All added"

add_to_cart_body(user_id, items, fault) ==
    IF items = <<>>
    THEN /\ resp' = Response("add_to_cart", user_id, 400, "No items provided", NoBody)
         /\ UNCHANGED <<tables, auto_inc, now, ledger>>
    ELSE IF fault = 0
    THEN /\ resp' = Response("add_to_cart", user_id, 500, "Server error", NoBody)
         /\ UNCHANGED <<tables, auto_inc, now, ledger>>
    ELSE
    LET st == add_items_loop(user_id, items,
                  [tx |-> Store, added |-> <<>>, errors |-> <<>>, accepted |-> <<>>,
                   n |-> 0, fault |-> fault, raised |-> FALSE])
        body == [NoBody EXCEPT !.added = st.added, !.errors = st.errors]
    IN
    IF st.raised \/ Raises(st)       \* conn.commit() is the last statement
    THEN /\ Apply(conn_rollback(Store, st.tx))
         /\ resp' = Response("add_to_cart", user_id, 500, "Database error", NoBody)
         /\ UNCHANGED <<auto_inc, now, ledger>>
    ELSE /\ Apply(conn_commit(Store, st.tx))
         /\ ledger' = LedgerAdd(ledger, user_id, st.accepted)
         /\ resp' = Progress(
                        Response("add_to_cart", user_id,
                                 batch_status(st.added, st.errors),
                                 batch_message(st.added, st.errors), body),
                        Len(st.accepted))
         /\ UNCHANGED <<auto_inc, now>>

\* H: the Authorization headers tried; R: the requests tried, each the
\* items of the body and the store's fault while serving it.
add_to_cart(H, R) ==
    /\ UNCHANGED <<conns, issued, users>>
    /\ \E hdr \in H :
        LET v == verify_customer_token(hdr, now) IN
        IF ~v.ok THEN req' = Request("add_to_cart", hdr, <<>>) /\ Reject("add_to_cart", v)
        ELSE \E r \in R :
                /\ req' = Request("add_to_cart", hdr, r[1])
                /\ add_to_cart_body(v.user_id, r[1], r[2])

(***************************************************************************)
(* Cart Manager: GET /cart, DELETE /cart/<perfume_id>                      *)
(***************************************************************************)
\* SELECT ... FROM carts c JOIN perfumes p ON c.perfume_id = p.id
\*   WHERE c.user_id = %s, each row annotated with in_stock.
\* A flag that wants one unit to spare.
in_stock_with_spare(stock, quantity) == stock > quantity
\* item['in_stock'] = item['stock'] >= item['quantity']
in_stock(stock, quantity) == stock >= quantity

view_rows(db, user_id) ==
    {[perfume_id |-> r.perfume_id, quantity |-> r.quantity,
      size |-> IF r.size # Null THEN r.size ELSE db.perfumes[r.perfume_id].size,
      stock |-> db.perfumes[r.perfume_id].quantity,
      in_stock |-> in_stock(db.perfumes[r.perfume_id].quantity, r.quantity)] :
        r \in {c \in db.carts : c.user_id = user_id /\ c.perfume_id \in DOMAIN db.perfumes}}

view_cart_body(user_id, fault) ==
    /\ resp' = IF fault = 0
               THEN Response("view_cart", user_id, 500, "Server error", NoBody)
               ELSE IF fault = 1
               THEN Response("view_cart", user_id, 500, "Failed to load cart", NoBody)
               ELSE Response("view_cart", user_id, 200, "",
                             [NoBody EXCEPT !.rows = view_rows(Store, user_id)])
    /\ UNCHANGED <<tables, auto_inc, now, ledger>>

view_cart(H, F) ==
    /\ UNCHANGED <<conns, issued, users>>
    /\ \E hdr \in H :
        LET v == verify_customer_token(hdr, now) IN
        /\ req' = Request("view_cart", hdr, <<>>)
        /\ IF ~v.ok THEN Reject("view_cart", v)
           ELSE \E fault \in F : view_cart_body(v.user_id, fault)

\* A delete that stops after the first row it finds.
delete_cart_rows_first_match(tbl, user_id, pid) ==
    LET hit == {r \in tbl : r.user_id = user_id /\ r.perfume_id = pid} IN
    IF hit = {} THEN tbl ELSE tbl \ {CHOOSE r \in hit : TRUE}
\* A delete that forgets whose cart it is.
delete_cart_rows_any_user(tbl, user_id, pid) ==
    {r \in tbl : r.perfume_id # pid}
\* DELETE FROM carts WHERE user_id = %s AND perfume_id = %s
delete_cart_rows(tbl, user_id, pid) ==
    {r \in tbl : ~(r.user_id = user_id /\ r.perfume_id = pid)}

remove_from_cart_body(user_id, pid, fault) ==
    LET tx == [Store EXCEPT !.carts = delete_cart_rows(@, user_id, pid)]
        rowcount == Cardinality(carts \ tx.carts)
    IN
    IF fault = 0
    THEN /\ resp' = Response("remove_from_cart", user_id, 500, "Server error", NoBody)
         /\ UNCHANGED <<tables, auto_inc, now, ledger>>
    ELSE IF fault = 1
    THEN /\ Apply(conn_rollback(Store, Store))
         /\ resp' = Response("remove_from_cart", user_id, 500, "Database error", NoBody)
         /\ UNCHANGED <<auto_inc, now, ledger>>
    ELSE IF rowcount = 0
    THEN /\ Apply(conn_close(Store, tx))
         /\ resp' = Response("remove_from_cart", user_id, 404, "Item not in your cart", NoBody)
         /\ UNCHANGED <<auto_inc, now, ledger>>
    ELSE IF fault = 2       \* conn.commit() raises
    THEN /\ Apply(conn_rollback(Store, tx))
         /\ resp' = Response("remove_from_cart", user_id, 500, "Database error", NoBody)
         /\ UNCHANGED <<auto_inc, now, ledger>>
    ELSE /\ Apply(conn_commit(Store, tx))
         /\ ledger' = {e \in ledger : ~(e.key[1] = user_id /\ e.key[2] = pid)}
         /\ resp' = Response("remove_from_cart", user_id, 200, "", NoBody)
         /\ UNCHANGED <<auto_inc, now>>

remove_from_cart(H, P, F) ==
    /\ UNCHANGED <<conns, issued, users>>
    /\ \E hdr \in H :
        LET v == verify_customer_token(hdr, now) IN
        IF ~v.ok
        THEN req' = Request("remove_from_cart", hdr, <<>>) /\ Reject("remove_from_cart", v)
        ELSE \E pid \in P, fault \in F :
                /\ req' = Request("remove_from_cart", hdr, [perfume_id |-> pid])
                /\ remove_from_cart_body(v.user_id, pid, fault)

(***************************************************************************)
(* Checkout / Order Engine: POST /checkout (alias POST /orders)            *)
(***************************************************************************)
\* The card block of a payload.  cardNumber and cvv are texts, character by
\* character; cardName and expiry are texts the handler stores as they
\* come, "" for an absent key.
NoCard == [cardName |-> "", cardNumber |-> <<>>, expiry |-> "", cvv |-> <<>>]
GoodCard == [cardName |-> "A. Buyer",
             cardNumber |-> <<"4", "1", "1", "1", " ", "1", "1", "1", "1", " ",
                              "1", "1", "1", "1", " ", "1", "1", "1", "1">>,
             expiry |-> "12/30", cvv |-> <<"1", "2", "3">>]

DigitChars == {"0", "1", "2", "3", "4", "5", "6", "7", "8", "9"}
\* value.replace(' ', '')
replace_spaces(value) == SelectSeq(value, LAMBDA c : c # " ")
\* not value or not str(value).strip(), for a text given by its characters
blank_chars(value) == replace_spaces(value) = <<>>
\* the same for cardName and expiry
blank_text(value) == value \in {"", " "}
\* value.isdigit()
isdigit(value) == value # <<>> /\ \A i \in 1 .. Len(value) : value[i] \in DigitChars
\* value[-4:]
last_four(value) == IF Len(value) <= 4 THEN value ELSE SubSeq(value, Len(value) - 3, Len(value))

\* A mask that keeps every digit.
card_last4_whole_number(cardNumber) == replace_spaces(cardNumber)
\* last4 = str(card_details['cardNumber']).replace(' ', '')[-4:]
card_last4(cardNumber) == last_four(replace_spaces(cardNumber))

\* INSERT INTO payment_details (order_id, payment_method, card_last4,
\*   card_holder_name, expiry)
payment_row(order_id, card) ==
    [order_id |-> order_id, payment_method |-> "card",
     card_last4 |-> card_last4(card.cardNumber),
     card_holder_name |-> card.cardName, expiry |-> card.expiry]

\* data['payment_method'].lower()
lower(s) == IF s = "CARD" THEN "card" ELSE IF s = "Cod" THEN "cod" ELSE s

\* The first validation failure of the request body, "" when it passes.
validate_checkout(data) ==
    IF ~data.has_fields THEN "Missing required field"
    ELSE IF lower(data.payment_method) \notin {"card", "cod"}
    THEN "payment_method must be 'card' or 'cod'"
    ELSE IF data.items = <<>> THEN "Items must be a non-empty list"
    ELSE IF ~data.shipping_ok THEN "Shipping field is required and cannot be empty"
    ELSE IF lower(data.payment_method) # "card" THEN ""
    ELSE IF blank_text(data.card.cardName) THEN "Card cardName is required"
    ELSE IF blank_chars(data.card.cardNumber) THEN "Card cardNumber is required"
    ELSE IF Len(replace_spaces(data.card.cardNumber)) < 13
            \/ Len(replace_spaces(data.card.cardNumber)) > 19
    THEN "Invalid card number"
    ELSE IF blank_text(data.card.expiry) THEN "Card expiry is required"
    ELSE IF blank_chars(data.card.cvv) THEN "Card cvv is required"
    ELSE IF ~(isdigit(data.card.cvv) /\ Len(data.card.cvv) \in {3, 4})
    THEN "CVV must be 3 or 4 digits"
    ELSE ""

\* The stock check off by one: stock + 1 < quantity.
insufficient_stock_off_by_one(stock, quantity) == stock + 1 < quantity
\* if perfume['quantity'] < quantity: reject
insufficient_stock(stock, quantity) == stock < quantity

\* A check that refuses a line of no unit and lets a negative one through.
non_positive_zero_only(quantity) == quantity = 0
\* if quantity <= 0: reject
non_positive(quantity) == quantity <= 0

\* An update that takes one unit whatever the line asks for.
decrement_stock_one_unit(tbl, pid, quantity) ==
    [tbl EXCEPT ![pid].quantity = @ - 1]
\* UPDATE perfumes SET quantity = quantity - %s WHERE id = %s
decrement_stock(tbl, pid, quantity) ==
    [tbl EXCEPT ![pid].quantity = @ - quantity]

\* DELETE FROM carts without the WHERE clause.
clear_cart_everyone(tbl, user_id) == {}
\* DELETE FROM carts WHERE user_id = %s
clear_cart(tbl, user_id) == {r \in tbl : r.user_id # user_id}

\* A final status that leaves every order pending.
final_status_pending(payment_method) == "pending"
\* final_status = 'paid' if payment_method == 'card' else 'cod_pending'
final_status(payment_method) == IF payment_method = "card" THEN "paid" ELSE "cod_pending"

\* How a handler leaves its transaction.
Exit(st, how, code, error) == [st EXCEPT !.exit = how, !.code = code, !.error = error]

\* One pass of the `for item in items` loop of checkout.  kind =
\* "malformed": a key is missing or a value does not parse.
checkout_one_item(order_id, item, st) ==
    IF item.kind = "malformed"
    THEN Exit(st, "rollback", 400, "Invalid item data format")
    ELSE IF non_positive(item.quantity)
    THEN Exit(st, "return", 400, "Quantity must be positive")
    ELSE IF Raises(st) THEN Exit(st, "raise", 500, "Order failed. Please try again later.")
    ELSE
    LET s1 == Exec(st)
        found == select_available_perfume(s1.tx.perfumes, item.perfume_id)
    IN
    IF found = {}
    THEN Exit(s1, "rollback", 404, "Perfume ID not found or unavailable")
    ELSE IF insufficient_stock((CHOOSE x \in found : TRUE).quantity, item.quantity)
    THEN Exit(s1, "rollback", 400, "Only {quantity} left of {name}")
    ELSE IF Raises(s1) THEN Exit(s1, "raise", 500, "Order failed. Please try again later.")
    ELSE
    LET s2 == [Exec(s1) EXCEPT
                  !.line = @ + 1,
                  !.tx.order_items = @ \cup
                      {[order_id |-> order_id, line |-> s1.line + 1,
                        perfume_id |-> item.perfume_id, quantity |-> item.quantity,
                        size |-> IF Falsy(item.size) THEN Null ELSE item.size]}]
    IN
    IF Raises(s2) THEN Exit(s2, "raise", 500, "Order failed. Please try again later.")
    ELSE [Exec(s2) EXCEPT
            !.tx.perfumes = decrement_stock(@, item.perfume_id, item.quantity)]

RECURSIVE checkout_items_loop(_, _, _)
checkout_items_loop(order_id, items, st) ==
    IF items = <<>> \/ st.exit # "" THEN st
    ELSE checkout_items_loop(order_id, Tail(items),
                             checkout_one_item(order_id, Head(items), st))

\* Steps 3-5 and the commit, each a statement that may raise.
RECURSIVE checkout_finish(_, _, _, _)
checkout_finish(user_id, order_id, data, st) ==
    IF st.exit # "" THEN st
    ELSE IF Raises(st) THEN Exit(st, "raise", 500, "Order failed. Please try again later.")
    ELSE IF st.step = "card"
    THEN checkout_finish(user_id, order_id, data,
            IF lower(data.payment_method) = "card"
            THEN [Exec(st) EXCEPT
                    !.step = "clear",
                    !.tx.payment_details = @ \cup {payment_row(order_id, data.card)}]
            ELSE [st EXCEPT !.step = "clear"])
    ELSE IF st.step = "clear"
    THEN checkout_finish(user_id, order_id, data,
            [Exec(st) EXCEPT
                !.step = "status",
                !.tx.carts = clear_cart(@, user_id)])
    ELSE IF st.step = "status"
    THEN checkout_finish(user_id, order_id, data,
            [Exec(st) EXCEPT
                !.step = "commit",
                !.tx.orders = {IF o.id = order_id
                               THEN [o EXCEPT !.status = final_status(lower(data.payment_method))]
                               ELSE o : o \in @}])
    ELSE Exit(Exec(st), "commit", 201, "")

\* The transaction's outcome on each way out of the handler: an explicit
\* conn.rollback(), the except clause's rollback, a bare return (the finally
\* clause closes the connection), or conn.commit().
checkout_outcome(db, st) ==
    IF st.exit = "commit" THEN conn_commit(db, st.tx)
    ELSE IF st.exit = "return" THEN conn_close(db, st.tx)
    ELSE conn_rollback(db, st.tx)

checkout_body(user_id, data, fault) ==
    LET invalid == validate_checkout(data) IN
    IF invalid # ""
    THEN /\ resp' = Response("checkout", user_id, 400, invalid, NoBody)
         /\ UNCHANGED <<tables, auto_inc, now, ledger>>
    ELSE IF fault = 0
    THEN /\ resp' = Response("checkout", user_id, 500, "Database unavailable", NoBody)
         /\ UNCHANGED <<tables, auto_inc, now, ledger>>
    ELSE IF fault = 1       \* the INSERT INTO orders raises
    THEN /\ Apply(conn_rollback(Store, Store))
         /\ resp' = Response("checkout", user_id, 500,
                             "Order failed. Please try again later.", NoBody)
         /\ UNCHANGED <<auto_inc, now, ledger>>
    ELSE
    LET order_id == auto_inc + 1        \* cursor.lastrowid
        st0 == [tx |-> [Store EXCEPT !.orders = @ \cup
                           {[id |-> order_id, user_id |-> user_id,
                             total_amount |-> data.totalPrice,
                             payment_method |-> lower(data.payment_method),
                             status |-> "pending"]}],
                n |-> 1, fault |-> fault, line |-> 0, step |-> "card",
                exit |-> "", code |-> 0, error |-> ""]
        st == checkout_finish(user_id, order_id, data,
                              checkout_items_loop(order_id, data.items, st0))
    IN
    /\ auto_inc' = order_id
    /\ Apply(checkout_outcome(Store, st))
    /\ ledger' = IF st.exit = "commit" THEN {e \in ledger : e.key[1] # user_id}
                 ELSE ledger
    /\ resp' = Progress(Response("checkout", user_id, st.code, st.error,
                            IF st.exit = "commit"
                            THEN [NoBody EXCEPT !.order_id = order_id,
                                     !.status = final_status(lower(data.payment_method))]
                            ELSE NoBody), st.line)
    /\ UNCHANGED now

\* R: the requests tried, each a body and the store's fault while serving it.
checkout(H, R) ==
    /\ UNCHANGED <<conns, issued, users>>
    /\ \E hdr \in H :
        LET v == verify_customer_token(hdr, now) IN
        IF ~v.ok THEN req' = Request("checkout", hdr, <<>>) /\ Reject("checkout", v)
        ELSE \E r \in R :
                /\ req' = Request("checkout", hdr, r[1])
                /\ checkout_body(v.user_id, r[1], r[2])

(***************************************************************************)
(* Order Query Views: GET /orders, GET /recent-orders                      *)
(***************************************************************************)
\* SELECT ... FROM order_items oi JOIN perfumes p ON oi.perfume_id = p.id
\*   WHERE oi.order_id = %s
select_order_items(db, order_id) ==
    {[perfume_id |-> i.perfume_id, quantity |-> i.quantity, size |-> i.size] :
        i \in {x \in db.order_items :
                 x.order_id = order_id /\ x.perfume_id \in DOMAIN db.perfumes}}

order_with_items(db, o) ==
    [id |-> o.id, user_id |-> o.user_id, status |-> o.status,
     payment_method |-> o.payment_method, items |-> select_order_items(db, o.id)]

\* ORDER BY created_at DESC LIMIT n OFFSET k: the rows ranked k .. k+n-1
\* counting from the newest; orders are created in id order.
newest_slice(S, n, k) ==
    {o \in S : LET newer == Cardinality({x \in S : x.id > o.id})
               IN newer >= k /\ newer < k + n}

\* The orders rows that checkouts still running have inserted and not
\* committed: status 'pending'.
uncommitted_orders ==
    {[id |-> conns[c].order_id, user_id |-> conns[c].user_id,
      total_amount |-> conns[c].total_amount,
      payment_method |-> conns[c].payment_method, status |-> "pending"] :
        c \in {d \in ConnIds : conns[d].order_id # 0 /\ conns[d].pc \notin {"idle", "done"}}}

\* A read at READ UNCOMMITTED: it returns the rows other transactions
\* have not committed as well.
select_orders_dirty(tbl) == tbl \cup uncommitted_orders
\* SELECT ... FROM orders on a connection of its own, opened with the
\* store's default isolation: the rows committed.
select_orders(tbl) == tbl

get_orders_body(user_id, fault) ==
    LET mine == {o \in select_orders(orders) : o.user_id = user_id} IN
    /\ resp' = IF fault = 0
               THEN Response("get_orders", user_id, 500, "Server error", NoBody)
               ELSE IF fault >= 1 /\ fault <= 1 + Cardinality(mine)
               THEN Response("get_orders", user_id, 500, "Failed to load orders", NoBody)
               ELSE Response("get_orders", user_id, 200, "",
                        [NoBody EXCEPT !.rows = {order_with_items(Store, o) : o \in mine}])
    /\ UNCHANGED <<tables, auto_inc, now, ledger>>

get_orders(H, F) ==
    /\ UNCHANGED <<conns, issued, users>>
    /\ \E hdr \in H :
        LET v == verify_customer_token(hdr, now) IN
        /\ req' = Request("get_orders", hdr, <<>>)
        /\ IF ~v.ok THEN Reject("get_orders", v)
           ELSE \E fault \in F : get_orders_body(v.user_id, fault)

\* The ?limit= argument: a number, a text that is no number, or absent.
LimitArg(v) == [kind |-> "int", value |-> v]
TextLimit == [kind |-> "text", value |-> 0]
NoLimit == [kind |-> "absent", value |-> 0]
\* request.args.get('limit', 5, type=int): the default also when the value
\* does not convert.
parse_limit(arg) == IF arg.kind = "int" THEN arg.value ELSE 5

\* A clamp without its floor.
clamp_limit_no_floor(limit) == IF limit > 20 THEN 20 ELSE limit
\* if limit < 1: limit = 1; if limit > 20: limit = 20
clamp_limit(limit) == IF limit < 1 THEN 1 ELSE IF limit > 20 THEN 20 ELSE limit

recent_orders_body(user_id, limit, fault) ==
    LET mine == {o \in select_orders(orders) : o.user_id = user_id}
        shown == newest_slice(mine, clamp_limit(limit), 0)
    IN
    /\ resp' = IF fault = 0
               THEN Response("recent_orders", user_id, 200, "Loading...", NoBody)
               ELSE IF fault = 1
               THEN Response("recent_orders", user_id, 200, "Try again", NoBody)
               ELSE IF shown = {}
               THEN Response("recent_orders", user_id, 200, "No orders yet", NoBody)
               ELSE IF fault >= 2 /\ fault <= 1 + Cardinality(shown)
               THEN Response("recent_orders", user_id, 200, "Try again", NoBody)
               ELSE Response("recent_orders", user_id, 200, "Your latest orders",
                        [NoBody EXCEPT !.rows = {order_with_items(Store, o) : o \in shown},
                                       !.total = Cardinality(shown)])
    /\ UNCHANGED <<tables, auto_inc, now, ledger>>

recent_orders(H, L, F) ==
    /\ UNCHANGED <<conns, issued, users>>
    /\ \E hdr \in H :
        LET v == verify_customer_token(hdr, now) IN
        IF ~v.ok
        THEN req' = Request("recent_orders", hdr, <<>>) /\ Reject("recent_orders", v)
        ELSE \E arg \in L, fault \in F :
                /\ req' = Request("recent_orders", hdr, [limit |-> arg])
                /\ recent_orders_body(v.user_id, parse_limit(arg), fault)

(***************************************************************************)
(* Admin panel: orders, order detail, status update, payments              *)
(***************************************************************************)
\* Query arguments of GET /admin/orders; status "" and user_id 0: not given.
ListArgs(page, per_page, status, user_id) ==
    [page |-> page, per_page |-> per_page, status |-> status, user_id |-> user_id]

admin_list_orders_body(admin_id, args, fault) ==
    LET page == IF args.page > 1 THEN args.page ELSE 1
        per_page == IF args.per_page < 50 THEN args.per_page ELSE 50
        offset == (page - 1) * per_page
        matching == {o \in select_orders(orders) :
                        /\ (args.status # "" => o.status = args.status)
                        /\ (args.user_id # 0 => o.user_id = args.user_id)}
    IN
    /\ resp' = IF fault = 0
               THEN Response("admin_list_orders", admin_id, 500, "DB unavailable", NoBody)
               ELSE IF fault \in {1, 2} \/ per_page <= 0
               \* LIMIT with a negative count is refused by the store; with
               \* per_page = 0 the page count divides by zero.
               THEN Response("admin_list_orders", admin_id, 500,
                             "Failed to fetch orders", NoBody)
               ELSE Response("admin_list_orders", admin_id, 200, "",
                        [NoBody EXCEPT
                            !.rows = {[id |-> o.id, user_id |-> o.user_id,
                                       status |-> o.status,
                                       payment_method |-> o.payment_method] :
                                        o \in newest_slice(matching, per_page, offset)},
                            !.total = Cardinality(matching)])
    /\ UNCHANGED <<tables, auto_inc, now, ledger>>

admin_list_orders(H, A, F) ==
    /\ UNCHANGED <<conns, issued, users>>
    /\ \E hdr \in H :
        LET v == verify_admin_token(hdr, now) IN
        /\ req' = Request("admin_list_orders", hdr, <<>>)
        /\ IF ~v.ok THEN Reject("admin_list_orders", v)
           ELSE \E args \in A, fault \in F : admin_list_orders_body(v.user_id, args, fault)

admin_get_order_body(admin_id, order_id, fault) ==
    LET found == {o \in select_orders(orders) : o.id = order_id} IN
    /\ resp' = IF fault = 0
               THEN Response("admin_get_order", admin_id, 500, "DB unavailable", NoBody)
               ELSE IF fault = 1
               THEN Response("admin_get_order", admin_id, 500, "Failed to load order", NoBody)
               ELSE IF found = {}
               THEN Response("admin_get_order", admin_id, 404, "Order not found", NoBody)
               ELSE IF fault \in {2, 3}
               THEN Response("admin_get_order", admin_id, 500, "Failed to load order", NoBody)
               ELSE Response("admin_get_order", admin_id, 200, "",
                        [NoBody EXCEPT
                            !.rows = {[order |-> order_with_items(Store, o),
                                       payment |-> {[payment_method |-> d.payment_method,
                                                     card_last4 |-> d.card_last4,
                                                     card_holder_name |-> d.card_holder_name,
                                                     expiry |-> d.expiry] :
                                                      d \in {x \in payment_details :
                                                               x.order_id = order_id}}] :
                                        o \in found},
                            !.order_id = order_id])
    /\ UNCHANGED <<tables, auto_inc, now, ledger>>

admin_get_order(H, O, F) ==
    /\ UNCHANGED <<conns, issued, users>>
    /\ \E hdr \in H :
        LET v == verify_admin_token(hdr, now) IN
        /\ req' = Request("admin_get_order", hdr, <<>>)
        /\ IF ~v.ok THEN Reject("admin_get_order", v)
           ELSE \E order_id \in O, fault \in F :
                   admin_get_order_body(v.user_id, order_id, fault)

\* A status as a client sends it: `given` FALSE when the key is absent;
\* `form` "plain" when the text is trimmed lower case already, "raw" when
\* it carries surrounding blanks or capitals.
StatusText(text, form) == [given |-> TRUE, text |-> text, form |-> form]
NoStatus == [given |-> FALSE, text |-> "", form |-> "plain"]
Truthy(s) == s.given /\ s.text # ""

allowed == {"pending", "paid", "cod_pending", "shipped", "delivered", "cancelled"}
\* str(new_status).strip().lower()
strip_lower(s) == [s EXCEPT !.form = "plain"]
\* A check that lets every status through.
is_allowed_any_status(s) == TRUE
\* new_status in allowed
is_allowed(s) == s.form = "plain" /\ s.text \in allowed

\* A lookup that forgets the id.
select_order_any_id(tbl, order_id) == tbl
\* SELECT status FROM orders WHERE id = %s FOR UPDATE
select_order_for_update(tbl, order_id) == {o \in tbl : o.id = order_id}

\* An UPDATE without its WHERE clause.
update_order_status_every_order(tbl, order_id, status) ==
    {[o EXCEPT !.status = status] : o \in tbl}
\* An update that treats delivered and cancelled as final.
update_order_status_final_states(tbl, order_id, status) ==
    {IF o.id = order_id /\ o.status \notin {"delivered", "cancelled"}
     THEN [o EXCEPT !.status = status] ELSE o : o \in tbl}
\* UPDATE orders SET status = %s WHERE id = %s
update_order_status(tbl, order_id, status) ==
    {IF o.id = order_id THEN [o EXCEPT !.status = status] ELSE o : o \in tbl}

admin_update_order_status_body(admin_id, order_id, json_status, query_status, fault) ==
    LET chosen == IF Truthy(json_status) THEN json_status ELSE query_status
        new_status == strip_lower(chosen)
        found == select_order_for_update(select_orders(orders), order_id)
        tx == [Store EXCEPT !.orders = update_order_status(@, order_id, new_status.text)]
        op == "admin_update_order_status"
    IN
    IF ~chosen.given
    THEN /\ resp' = Response(op, admin_id, 400, "Missing 'status'", NoBody)
         /\ UNCHANGED <<tables, auto_inc, now, ledger>>
    ELSE IF ~is_allowed(new_status)
    THEN /\ resp' = Response(op, admin_id, 400, "Invalid status", NoBody)
         /\ UNCHANGED <<tables, auto_inc, now, ledger>>
    ELSE IF fault = 0
    THEN /\ resp' = Response(op, admin_id, 500, "DB unavailable", NoBody)
         /\ UNCHANGED <<tables, auto_inc, now, ledger>>
    ELSE IF fault = 1       \* SELECT ... FOR UPDATE raises
    THEN /\ Apply(conn_rollback(Store, Store))
         /\ resp' = Response(op, admin_id, 500, "Update failed", NoBody)
         /\ UNCHANGED <<auto_inc, now, ledger>>
    ELSE IF found = {}
    THEN /\ Apply(conn_close(Store, Store))
         /\ resp' = Response(op, admin_id, 404, "Order not found", NoBody)
         /\ UNCHANGED <<auto_inc, now, ledger>>
    ELSE IF fault = 2       \* the UPDATE raises
    THEN /\ Apply(conn_rollback(Store, Store))
         /\ resp' = Response(op, admin_id, 500, "Update failed", NoBody)
         /\ UNCHANGED <<auto_inc, now, ledger>>
    ELSE IF fault = 3       \* conn.commit() raises
    THEN /\ Apply(conn_rollback(Store, tx))
         /\ resp' = Response(op, admin_id, 500, "Update failed", NoBody)
         /\ UNCHANGED <<auto_inc, now, ledger>>
    ELSE /\ Apply(conn_commit(Store, tx))
         /\ resp' = Response(op, admin_id, 200, "Status updated",
                             [NoBody EXCEPT !.order_id = order_id,
                                            !.status = new_status.text])
         /\ UNCHANGED <<auto_inc, now, ledger>>

\* U: the updates tried, each <<order id, JSON status, query status, fault>>.
admin_update_order_status(H, U) ==
    /\ UNCHANGED <<conns, issued, users>>
    /\ \E hdr \in H :
        LET v == verify_admin_token(hdr, now) IN
        IF ~v.ok
        THEN /\ req' = Request("admin_update_order_status", hdr, <<>>)
             /\ Reject("admin_update_order_status", v)
        ELSE \E u \in U :
                /\ req' = Request("admin_update_order_status", hdr,
                                  [order_id |-> u[1], json_status |-> u[2],
                                   query_status |-> u[3]])
                /\ admin_update_order_status_body(v.user_id, u[1], u[2], u[3], u[4])

admin_list_payments_body(admin_id, fault) ==
    /\ resp' = IF fault = 0
               THEN Response("admin_list_payments", admin_id, 500, "DB unavailable", NoBody)
               ELSE IF fault = 1
               THEN Response("admin_list_payments", admin_id, 500,
                             "Failed to load payments", NoBody)
               ELSE Response("admin_list_payments", admin_id, 200, "",
                        [NoBody EXCEPT
                            !.rows = {[order_id |-> d.order_id, user_id |-> o.user_id,
                                       payment_method |-> d.payment_method,
                                       card_last4 |-> d.card_last4,
                                       card_holder_name |-> d.card_holder_name,
                                       expiry |-> d.expiry] :
                                        <<d, o>> \in {x \in payment_details \X orders :
                                                        x[1].order_id = x[2].id}}])
    /\ UNCHANGED <<tables, auto_inc, now, ledger>>

admin_list_payments(H, F) ==
    /\ UNCHANGED <<conns, issued, users>>
    /\ \E hdr \in H :
        LET v == verify_admin_token(hdr, now) IN
        /\ req' = Request("admin_list_payments", hdr, <<>>)
        /\ IF ~v.ok THEN Reject("admin_list_payments", v)
           ELSE \E fault \in F : admin_list_payments_body(v.user_id, fault)

(***************************************************************************)
(* Identity echo (src/auth.py): GET /dashboard, GET /user/details.  Both   *)
(* hand the header value to jwt.decode themselves.                         *)
(***************************************************************************)
dashboard(H) ==
    /\ UNCHANGED <<conns, issued, users>>
    /\ \E hdr \in H :
        LET d == jwt_decode(hdr, now) IN
        /\ req' = Request("dashboard", hdr, <<>>)
        /\ resp' = IF ~hdr.present
                   THEN Response("dashboard", NoUser, 401, "Token missing", NoBody)
                   ELSE IF d.result = "ExpiredSignatureError"
                   THEN Response("dashboard", NoUser, 401, "Token expired", NoBody)
                   ELSE IF d.result = "InvalidTokenError"
                   THEN Response("dashboard", NoUser, 401, "Invalid token", NoBody)
                   ELSE IF d.data.role_id = 1
                   THEN Response("dashboard", d.data.user_id, 200, "Welcome Admin", NoBody)
                   ELSE IF d.data.role_id = 2
                   THEN Response("dashboard", d.data.user_id, 200, "Welcome Customer", NoBody)
                   ELSE Response("dashboard", d.data.user_id, 403, "Unknown role", NoBody)
        /\ UNCHANGED <<tables, auto_inc, now, ledger>>

\* SELECT username, email, phone_number, role_id FROM users WHERE id = %s
select_user(user_id) ==
    {[id |-> u.id, role_id |-> u.role_id] : u \in {x \in users : x.id = user_id}}

role_name(role_id) ==
    IF role_id = 1 THEN "Admin" ELSE IF role_id = 2 THEN "Customer" ELSE "Unknown"

user_details(H, F) ==
    /\ UNCHANGED <<conns, issued, users>>
    /\ \E hdr \in H, fault \in F :
        LET d == jwt_decode(hdr, now)
            user == select_user(d.data.user_id)
        IN
        /\ req' = Request("user_details", hdr, <<>>)
        /\ resp' = IF ~hdr.present
                   THEN Response("user_details", NoUser, 401,
                                 "Valid Authorization header required", NoBody)
                   ELSE IF d.result = "ExpiredSignatureError"
                   THEN Response("user_details", NoUser, 401, "Token expired", NoBody)
                   ELSE IF d.result = "InvalidTokenError"
                   THEN Response("user_details", NoUser, 401, "Invalid token", NoBody)
                   ELSE IF fault \in {0, 1}
                   THEN Response("user_details", d.data.user_id, 500,
                                 "Server error while fetching user details", NoBody)
                   ELSE IF user = {}
                   THEN Response("user_details", d.data.user_id, 404, "User not found", NoBody)
                   ELSE Response("user_details", d.data.user_id, 200, "",
                            [NoBody EXCEPT
                                !.rows = {[id |-> u.id, role |-> role_name(u.role_id)] :
                                            u \in user}])
        /\ UNCHANGED <<tables, auto_inc, now, ledger>>

(***************************************************************************)
(* Token service (src/auth.py): POST /admin/login, POST /customer/login    *)
(***************************************************************************)
\* datetime.timedelta(hours=1), in the clock's half hours.
TOKEN_TTL == 2

\* A token that outlives the hour.
jwt_encode_two_hours(user, t) ==
    [user_id |-> user.id, role_id |-> user.role_id, sig |-> "good",
     exp |-> t + 2 * TOKEN_TTL]
\* jwt.encode({user_id, username, role_id, exp: utcnow() + 1h}, SECRET_KEY)
jwt_encode(user, t) ==
    [user_id |-> user.id, role_id |-> user.role_id, sig |-> "good",
     exp |-> t + TOKEN_TTL]

\* The body of a login request.  kind = "none": no JSON body; username 0:
\* the key is absent or empty; password "": absent or empty.
Credentials(u, pw) == [kind |-> "json", username |-> u, password |-> pw]
NoCredentials == [kind |-> "none", username |-> 0, password |-> ""]

\* The same without the role: SELECT * FROM users WHERE username = %s
select_user_by_name(username, role) == {x \in users : x.username = username}
\* SELECT * FROM users WHERE username = %s AND role_id = <role>
select_user_by_role(username, role) ==
    {x \in users : x.username = username /\ x.role_id = role}

\* generate_password_hash(password): a salted digest, never the password
generate_password_hash(password) == <<"pbkdf2", password>>
\* check_password_hash(user['password_hash'], password)
check_password_hash(password_hash, password) ==
    password_hash = generate_password_hash(password)

login_body(op, role, cred, fault) ==
    LET user == select_user_by_role(cred.username, role) IN
    /\ req' = Request(op, NoHeader, cred)
    /\ IF cred.kind = "none"     \* data.get on None raises
       THEN /\ resp' = Response(op, NoUser, 500, "Server error", NoBody)
            /\ UNCHANGED issued
       ELSE IF cred.username = 0 \/ cred.password = ""
       THEN /\ resp' = Response(op, NoUser, 400, "Username and password required", NoBody)
            /\ UNCHANGED issued
       ELSE IF fault = 0
       THEN /\ resp' = Response(op, NoUser, 500, "Server error", NoBody)
            /\ UNCHANGED issued
       ELSE IF user = {}
               \/ ~check_password_hash((CHOOSE x \in user : TRUE).password_hash, cred.password)
       THEN /\ resp' = Response(op, NoUser, 401, "Invalid username or password", NoBody)
            /\ UNCHANGED issued
       ELSE LET token == jwt_encode(CHOOSE x \in user : TRUE, now) IN
            /\ Cardinality(issued \cup {token}) <= MaxLogins
            /\ issued' = issued \cup {token}
            /\ resp' = Response(op, token.user_id, 200, "login successful", NoBody)
    /\ UNCHANGED <<tables, auto_inc, now, ledger, conns, users>>

admin_login(C, F) ==
    \E cred \in C, fault \in F : login_body("admin_login", ROLE_ADMIN, cred, fault)

customer_login(C, F) ==
    \E cred \in C, fault \in F : login_body("customer_login", ROLE_CUSTOMER, cred, fault)

(***************************************************************************)
(* Signup                                                                  *)
(***************************************************************************)
\* An email address by its name; at: it holds an '@'.  Name 0: no address.
Email(n) == [name |-> n, at |-> TRUE]
EmailWithoutAt(n) == [name |-> n, at |-> FALSE]
NoEmail == [name |-> 0, at |-> FALSE]

\* The body of a signup request.  kind = "none": no JSON body; username
\* and phone number 0, password "": the key is absent or empty.
Signup(u, e, ph, pw, cpw) ==
    [kind |-> "json", username |-> u, email |-> e, phone_number |-> ph,
     password |-> pw, confirm_password |-> cpw]
NoSignup == [Signup(0, NoEmail, 0, "", "") EXCEPT !.kind = "none"]

\* The first validation failure of a signup body, "" when it passes.
validate_signup(data) ==
    IF data.username = 0 \/ data.email.name = 0 \/ data.phone_number = 0
       \/ data.password = "" \/ data.confirm_password = ""
    THEN "Missing required fields"
    ELSE IF data.password # data.confirm_password THEN "Passwords do not match"
    ELSE IF Len(data.password) < 6 THEN "Password must be at least 6 characters long"
    ELSE IF ~data.email.at THEN "Invalid email format"
    ELSE ""

\* The unique keys of the users table.
users_unique_keys == {"username", "email", "phone_number"}
\* Only the username is kept unique.
duplicate_keys_username_only(tbl, row) == {k \in {"username"} : \E u \in tbl : u[k] = row[k]}
\* The unique keys on which `row` collides with a row of tbl: the INSERT
\* raises IntegrityError (Duplicate entry) when there is one.
duplicate_keys(tbl, row) == {k \in users_unique_keys : \E u \in tbl : u[k] = row[k]}

\* The answer to the IntegrityError raised on key k.
duplicate_message(k) ==
    IF k = "email" THEN "Email already exists"
    ELSE IF k = "phone_number" THEN "Phone number already exists"
    ELSE "Username already exists"

\* users.id AUTO_INCREMENT
next_user_id(tbl) ==
    IF tbl = {} THEN 1
    ELSE 1 + (CHOOSE i \in {u.id : u \in tbl} : \A u \in tbl : u.id <= i)

\* INSERT INTO users (username, email, phone_number, password_hash, role_id)
\* VALUES (%s, %s, %s, %s, <role>)
insert_user(tbl, data, role) ==
    [id |-> next_user_id(tbl), username |-> data.username, email |-> data.email,
     phone_number |-> data.phone_number,
     password_hash |-> generate_password_hash(data.password), role_id |-> role]

\* fault 0: the connection fails; 1: the INSERT raises; 2: the commit
\* raises.
signup_body(op, role, data, fault) ==
    LET invalid == IF data.kind = "none" THEN "" ELSE validate_signup(data)
        row == insert_user(users, data, role)
        dup == duplicate_keys(users, row)
    IN
    /\ req' = Request(op, NoHeader, data)
    /\ IF data.kind = "none"     \* data.get on None raises
       THEN /\ resp' = Response(op, NoUser, 500, "Server error during signup", NoBody)
            /\ UNCHANGED users
       ELSE IF invalid # ""
       THEN /\ resp' = Response(op, NoUser, 400, invalid, NoBody)
            /\ UNCHANGED users
       ELSE IF fault = 0
       THEN /\ resp' = Response(op, NoUser, 500, "Server error during signup", NoBody)
            /\ UNCHANGED users
       ELSE IF fault = 1
       THEN /\ resp' = Response(op, NoUser, 500, "Database error occurred", NoBody)
            /\ UNCHANGED users
       ELSE IF dup # {}
       THEN /\ \E k \in dup :
                 resp' = Response(op, NoUser, 400, duplicate_message(k), NoBody)
            /\ UNCHANGED users
       ELSE IF fault = 2
       THEN /\ resp' = Response(op, NoUser, 500, "Database error occurred", NoBody)
            /\ UNCHANGED users
       ELSE /\ resp' = Response(op, row.id, 201, "registered successfully!", NoBody)
            /\ users' = users \cup {row}
    /\ UNCHANGED <<tables, auto_inc, now, ledger, conns, issued>>

admin_signup(D, F) ==
    \E data \in D, fault \in F : signup_body("admin_signup", ROLE_ADMIN, data, fault)

customer_signup(D, F) ==
    \E data \in D, fault \in F : signup_body("customer_signup", ROLE_CUSTOMER, data, fault)

(***************************************************************************)
(* Requests                                                                *)
(***************************************************************************)
\* The raw token a login hands to user u, still valid at time t.
TokenOf(u, t) == [present |-> TRUE, bearer |-> FALSE,
                  tok |-> [user_id |-> u, role_id |-> RoleOf(u), sig |-> "good",
                           exp |-> t + 1]]
CustomerHeaders(t) == {TokenOf(u, t) : u \in Customers}

CartItem(p, q, s) == [kind |-> "ok", perfume_id |-> p, has_quantity |-> TRUE,
                      quantity |-> q, size |-> s]
Line(p, q) == [kind |-> "ok", perfume_id |-> p, quantity |-> q, size |-> Null]
MalformedLine == [kind |-> "malformed", perfume_id |-> 0, quantity |-> 0, size |-> Null]

Order(pm, items) == [has_fields |-> TRUE, payment_method |-> pm, items |-> items,
                     shipping_ok |-> TRUE, totalPrice |-> 10 * Len(items),
                     card |-> IF pm = "card" THEN GoodCard ELSE NoCard]

FirstLines == {Line(1, 1), Line(2, 1)}
GoodLines == FirstLines \cup {Line(1, MaxQty)}
BadLines == {Line(1, 0), Line(3, 1), Line(MissingPerfume, 1), MalformedLine}
\* One or two lines; a second line matters only after a first that passed.
OrderLines ==
    {<<a>> : a \in GoodLines \cup BadLines} \cup
    {<<a, b>> : a \in FirstLines, b \in GoodLines \cup BadLines}

\* A two-line card order runs the order, three statements per line, the
\* card, the cart, the status and the commit: 11 statements.
Checkouts ==
    {<<Order("cod", items), NoFault>> : items \in OrderLines}
    \cup {<<Order("card", items), NoFault>> :
            items \in {<<Line(1, 1)>>, <<Line(1, 1), Line(3, 1)>>}}
    \cup {<<[Order("cod", <<Line(1, 1)>>) EXCEPT !.shipping_ok = FALSE], NoFault>>}
    \cup {<<Order("card", <<Line(1, 1), Line(2, 1)>>), f>> : f \in {0, 1, 2, 5, 8, 11}}

SingleItems == {<<<<CartItem(p, q, Null)>>, NoFault>> : p \in {1, 2}, q \in 1 .. MaxQty}
\* The second customer is the bystander whose rows the first one's requests
\* must leave alone.
BystanderItems == {<<<<CartItem(2, 1, Null)>>, NoFault>>}

(***************************************************************************)
(* Spec: the handlers run one after another, each to completion.           *)
(***************************************************************************)
\* Perfume 2 is down to its last unit.
InitialQuantity(p) == IF p = 2 THEN 1 ELSE MaxStock

\* The users signed up before: username, email and phone number of user
\* u are all named u.
InitUsers ==
    {[id |-> u, username |-> u, email |-> Email(u), phone_number |-> u,
      password_hash |-> generate_password_hash("right"), role_id |-> RoleOf(u)] :
        u \in Users}

InitStore ==
    /\ perfumes = [p \in PerfumeIds |->
                      [quantity |-> InitialQuantity(p),
                       size |-> CatalogSize(p), available |-> CatalogAvailable(p)]]
    /\ carts = {}
    /\ orders = {}
    /\ order_items = {}
    /\ payment_details = {}
    /\ auto_inc = 0

Init ==
    /\ InitStore
    /\ now = 0
    /\ req = Request("", NoHeader, <<>>)
    /\ resp = Response("", NoUser, 0, "", NoBody)
    /\ ledger = {}
    /\ conns = [c \in ConnIds |-> IdleConn]
    /\ issued = {}
    /\ users = InitUsers

AddToCart ==
    \/ add_to_cart({TokenOf(1, now)}, SingleItems)
    \/ add_to_cart({TokenOf(2, now)}, BystanderItems)
ViewCart == view_cart(CustomerHeaders(now), {NoFault})
RemoveFromCart == remove_from_cart(CustomerHeaders(now), {1, 2}, {NoFault})
Checkout == auto_inc < MaxOrders /\ checkout(CustomerHeaders(now), Checkouts)

Next == AddToCart \/ ViewCart \/ RemoveFromCart \/ Checkout

Spec == Init /\ [][Next]_vars

(***************************************************************************)
(* SpecCart: one customer's cart under batches of up to two items, with    *)
(* sizes, failing items and store faults.                                  *)
(***************************************************************************)
DefaultQtyItem(p) == [kind |-> "ok", perfume_id |-> p, has_quantity |-> FALSE,
                      quantity |-> 0, size |-> Null]
InvalidItem == [kind |-> "invalid", perfume_id |-> 0, has_quantity |-> FALSE,
                quantity |-> 0, size |-> Null]
NoKeyItem == [kind |-> "nokey", perfume_id |-> 0, has_quantity |-> FALSE,
              quantity |-> 0, size |-> Null]

CartItems ==
    {CartItem(1, q, s) : q \in 1 .. MaxQty, s \in {Null, "50ml", "100ml"}}
    \cup {CartItem(2, q, Null) : q \in 1 .. MaxQty}
    \cup {CartItem(3, 1, Null), CartItem(MissingPerfume, 1, Null),
          DefaultQtyItem(2), InvalidItem, NoKeyItem}
CartPairs ==
    {<<a, b>> : a \in {CartItem(1, 1, Null), CartItem(3, 1, Null), InvalidItem},
                b \in {CartItem(1, 1, "50ml"), CartItem(1, MaxQty, "100ml"),
                       CartItem(2, 1, Null), CartItem(MissingPerfume, 1, Null),
                       NoKeyItem}}
\* A two-item batch runs three statements per item and the commit.
CartRequests ==
    {<<<<a>>, NoFault>> : a \in CartItems}
    \cup {<<b, NoFault>> : b \in CartPairs \cup {<<>>}}
    \cup {<<<<CartItem(1, 1, Null), CartItem(2, 1, Null)>>, f>> : f \in {0, 1, 3, 4, 7}}

CartHeaders(t) == {TokenOf(1, t)}

CartAdd == add_to_cart(CartHeaders(now), CartRequests)
CartView == view_cart(CartHeaders(now), {NoFault, 0, 1})
CartRemove == remove_from_cart(CartHeaders(now), {1, 2, 3}, {NoFault, 0, 1, 2})
CartCheckout ==
    auto_inc < MaxOrders /\ checkout(CartHeaders(now),
             {<<Order("cod", <<Line(p, 1)>>), NoFault>> : p \in {1, 2}})

NextCart == CartAdd \/ CartView \/ CartRemove \/ CartCheckout

SpecCart == Init /\ [][NextCart]_vars

(***************************************************************************)
(* SpecAuth: every protected endpoint under every kind of Authorization    *)
(* header - absent, raw or bearer-prefixed, issued (valid or expired) or   *)
(* forged, of either role.                                                 *)
(***************************************************************************)
AuthHeaders(t) == {h \in Headers(t) : h.tok.user_id # 2}

AuthAddToCart == add_to_cart(AuthHeaders(now), {<<<<CartItem(1, 1, Null)>>, NoFault>>})
AuthViewCart == view_cart(AuthHeaders(now), {NoFault})
AuthRemoveFromCart == remove_from_cart(AuthHeaders(now), {1}, {NoFault})
AuthCheckout ==
    /\ auto_inc < MaxOrders
    /\ checkout(AuthHeaders(now), {<<Order("cod", <<Line(1, 1)>>), NoFault>>})
AuthGetOrders == get_orders(AuthHeaders(now), {NoFault, 0})
AuthRecentOrders == recent_orders(AuthHeaders(now), {LimitArg(1)}, {NoFault, 0})
AuthAdminListOrders ==
    admin_list_orders(AuthHeaders(now),
                      {ListArgs(1, 20, "", 0), ListArgs(1, 0, "shipped", 1)}, {NoFault})
AuthAdminGetOrder == admin_get_order(AuthHeaders(now), {1, MaxOrders + 1}, {NoFault})
AuthAdminUpdateOrderStatus ==
    admin_update_order_status(AuthHeaders(now),
        {<<1, StatusText("shipped", "plain"), NoStatus, NoFault>>,
         <<1, NoStatus, StatusText("shipped", "raw"), 3>>,
         <<1, StatusText("refunded", "plain"), NoStatus, NoFault>>,
         <<MaxOrders + 1, StatusText("shipped", "plain"), NoStatus, NoFault>>,
         <<1, NoStatus, NoStatus, NoFault>>})
AuthAdminListPayments == admin_list_payments(AuthHeaders(now), {NoFault, 1})
AuthDashboard == dashboard(AuthHeaders(now))
AuthUserDetails == user_details(AuthHeaders(now), {NoFault, 0})

NextAuth ==
    \/ AuthAddToCart \/ AuthViewCart \/ AuthRemoveFromCart \/ AuthCheckout
    \/ AuthGetOrders \/ AuthRecentOrders
    \/ AuthAdminListOrders \/ AuthAdminGetOrder \/ AuthAdminUpdateOrderStatus
    \/ AuthAdminListPayments
    \/ AuthDashboard \/ AuthUserDetails

SpecAuth == Init /\ [][NextAuth]_vars

(***************************************************************************)
(* Interleaved handlers.  Each connection runs its handler statement by    *)
(* statement.  A plain SELECT is a non-locking consistent read: it sees    *)
(* the snapshot its transaction took at its first read, overlaid with the  *)
(* transaction's own writes.  UPDATE and INSERT ... ON DUPLICATE KEY       *)
(* UPDATE work on the latest committed row and hold its lock until the     *)
(* transaction ends; a statement that waits for a lock may be refused      *)
(* (lock wait timeout, deadlock victim).                                   *)
(***************************************************************************)
Snapshot(cn) ==
    IF cn.snap = <<>> THEN [perfumes |-> perfumes, carts |-> carts] ELSE cn.snap[1]

Overlay(tbl, own) ==
    [p \in DOMAIN tbl |->
        IF \E w \in own : w.id = p
        THEN [tbl[p] EXCEPT !.quantity = (CHOOSE w \in own : w.id = p).quantity]
        ELSE tbl[p]]

RECURSIVE UpsertAll(_, _)
UpsertAll(tbl, rows) ==
    IF rows = {} THEN tbl
    ELSE LET r == CHOOSE x \in rows : TRUE
         IN UpsertAll(upsert_cart(tbl, r), rows \ {r})

\* What a SELECT of the connection reads.
read_perfumes(cn) == Overlay(Snapshot(cn).perfumes, cn.own)
read_carts(cn) == UpsertAll(Snapshot(cn).carts, cn.rows)
\* What an UPDATE of the connection works on.
current_perfumes(cn) == Overlay(perfumes, cn.own)

RowLockedByOther(c, pid) ==
    \E d \in ConnIds \ {c} : \E w \in conns[d].own : w.id = pid
KeyLockedByOther(c, key) ==
    \E d \in ConnIds \ {c} : key \in conns[d].keys

\* The handler returns `code`; its transaction ends and its locks go.
Returned(cn, code) ==
    [cn EXCEPT !.pc = "done", !.code = code, !.snap = <<>>, !.own = {}, !.keys = {}]
\* A return that leaves the connection open: the transaction stays as it
\* is, with its writes and its locks.
Discarded_left_open(cn, code) == [cn EXCEPT !.pc = "done", !.code = code]
\* conn.rollback(), or a return whose finally clause closes the connection:
\* the uncommitted writes are discarded.
Discarded(cn, code) == [Returned(cn, code) EXCEPT !.lines = {}, !.rows = {}]

(***************************************************************************)
(* SpecCheckoutRace: two checkouts, statement by statement                 *)
(***************************************************************************)
\* INSERT INTO orders ...; order_id = cursor.lastrowid
checkout_begin(c, user_id, data) ==
    /\ conns[c].pc = "idle"
    /\ validate_checkout(data) = ""
    /\ auto_inc' = auto_inc + 1
    /\ conns' = [conns EXCEPT ![c] =
                    [IdleConn EXCEPT !.pc = "select", !.user_id = user_id,
                                     !.items = data.items, !.i = 1,
                                     !.order_id = auto_inc + 1,
                                     !.payment_method = lower(data.payment_method),
                                     !.total_amount = data.totalPrice,
                                     !.card = data.card]]
    /\ UNCHANGED <<tables, now, req, resp, ledger, issued, users>>

\* The item is parsed, its quantity checked, and the stock read and
\* compared: SELECT quantity, name FROM perfumes WHERE id = %s AND available = 1
checkout_select_stock(c) ==
    LET cn == conns[c]
        item == cn.items[cn.i]
        found == select_available_perfume(read_perfumes(cn), item.perfume_id)
    IN
    /\ cn.pc = "select"
    /\ conns' = [conns EXCEPT ![c] =
            IF item.kind = "malformed" THEN Discarded(cn, 400)
            ELSE IF non_positive(item.quantity) THEN Discarded(cn, 400)
            ELSE IF found = {} THEN Discarded(cn, 404)
            ELSE IF insufficient_stock((CHOOSE x \in found : TRUE).quantity, item.quantity)
            THEN Discarded(cn, 400)
            ELSE [cn EXCEPT !.pc = "update", !.snap = <<Snapshot(cn)>>,
                            !.stock = (CHOOSE x \in found : TRUE).quantity]]
    /\ UNCHANGED <<tables, auto_inc, now, req, resp, ledger, issued, users>>

\* INSERT INTO order_items ...; UPDATE perfumes SET quantity = quantity - %s.
\* Whether the quantity column can hold a negative number is the schema's
\* choice: a result below zero may be stored or refused.
checkout_decrement(c) ==
    LET cn == conns[c]
        item == cn.items[cn.i]
        pid == item.perfume_id
        left == decrement_stock(current_perfumes(cn), pid, item.quantity)[pid].quantity
    IN
    /\ cn.pc = "update"
    /\ ~RowLockedByOther(c, pid)
    /\ \E refused \in (IF left < 0 THEN BOOLEAN ELSE {FALSE}) :
          conns' = [conns EXCEPT ![c] =
              IF refused THEN Discarded(cn, 500)
              ELSE [cn EXCEPT
                      !.pc = IF cn.i = Len(cn.items) THEN "finish" ELSE "select",
                      !.i = @ + 1,
                      !.lines = @ \cup {[order_id |-> cn.order_id, line |-> cn.i,
                                         perfume_id |-> pid, quantity |-> item.quantity,
                                         size |-> IF Falsy(item.size) THEN Null
                                                  ELSE item.size]},
                      !.own = {w \in @ : w.id # pid}
                              \cup {[id |-> pid, quantity |-> left]}]]
    /\ UNCHANGED <<tables, auto_inc, now, req, resp, ledger, issued, users>>

\* The UPDATE waits for the row and the store gives up: the except clause
\* rolls back.
checkout_lock_wait_fails(c) ==
    LET cn == conns[c] IN
    /\ cn.pc = "update"
    /\ RowLockedByOther(c, cn.items[cn.i].perfume_id)
    /\ conns' = [conns EXCEPT ![c] = Discarded(cn, 500)]
    /\ UNCHANGED <<tables, auto_inc, now, req, resp, ledger, issued, users>>

\* Card row, DELETE FROM carts, final status, conn.commit().
checkout_commit(c) ==
    LET cn == conns[c] IN
    /\ cn.pc = "finish"
    /\ perfumes' = current_perfumes(cn)
    /\ orders' = orders \cup {[id |-> cn.order_id, user_id |-> cn.user_id,
                               total_amount |-> cn.total_amount,
                               payment_method |-> cn.payment_method,
                               status |-> final_status(cn.payment_method)]}
    /\ order_items' = order_items \cup cn.lines
    /\ payment_details' =
          IF cn.payment_method = "card"
          THEN payment_details \cup {payment_row(cn.order_id, cn.card)}
          ELSE payment_details
    /\ carts' = clear_cart(carts, cn.user_id)
    /\ conns' = [conns EXCEPT ![c] = Returned(cn, 201)]
    /\ UNCHANGED <<auto_inc, now, req, resp, ledger, issued, users>>

RaceLines ==
    {<<Line(2, 1)>>, <<Line(1, MaxQty)>>, <<Line(1, 1), Line(2, 1)>>,
     <<Line(2, 1), Line(1, 1)>>, <<Line(3, 1)>>}

\* Connection c serves customer c.
CheckoutBegin ==
    \E c \in ConnIds, items \in RaceLines : checkout_begin(c, c, Order("cod", items))
CheckoutSelectStock == \E c \in ConnIds : checkout_select_stock(c)
CheckoutDecrement == \E c \in ConnIds : checkout_decrement(c)
CheckoutLockWaitFails == \E c \in ConnIds : checkout_lock_wait_fails(c)
CheckoutCommit == \E c \in ConnIds : checkout_commit(c)

NextCheckoutRace ==
    \/ CheckoutBegin \/ CheckoutSelectStock \/ CheckoutDecrement
    \/ CheckoutLockWaitFails \/ CheckoutCommit

SpecCheckoutRace == Init /\ [][NextCheckoutRace]_vars

(***************************************************************************)
(* SpecCartRace: two POST /cart requests of one customer, statement by     *)
(* statement                                                               *)
(***************************************************************************)
add_begin(c, user_id, items) ==
    /\ conns[c].pc = "idle"
    /\ items # <<>>
    /\ conns' = [conns EXCEPT ![c] =
                    [IdleConn EXCEPT !.pc = "perfume", !.user_id = user_id,
                                     !.items = items, !.i = 1]]
    /\ UNCHANGED <<tables, auto_inc, now, req, resp, ledger, issued, users>>

\* The next pass of `for item in items`, or the commit after the last.
add_next(cn) ==
    [cn EXCEPT !.pc = IF cn.i = Len(cn.items) THEN "commit" ELSE "perfume", !.i = @ + 1]
add_item_failed(cn) == add_next([cn EXCEPT !.errors = @ + 1])

\* SELECT quantity, size FROM perfumes WHERE id = %s AND available = 1
add_select_perfume(c) ==
    LET cn == conns[c]
        item == cn.items[cn.i]
        found == select_available_perfume(read_perfumes(cn), item.perfume_id)
    IN
    /\ cn.pc = "perfume"
    /\ conns' = [conns EXCEPT ![c] =
            IF item.kind = "nokey" THEN Discarded(cn, 500)
            ELSE IF item.kind = "invalid" THEN add_item_failed(cn)
            ELSE IF found = {}
            THEN add_item_failed([cn EXCEPT !.snap = <<Snapshot(cn)>>])
            ELSE [cn EXCEPT !.pc = "cart", !.snap = <<Snapshot(cn)>>,
                            !.stock = (CHOOSE x \in found : TRUE).quantity,
                            !.size = use_size(item.size, (CHOOSE x \in found : TRUE).size)]]
    /\ UNCHANGED <<tables, auto_inc, now, req, resp, ledger, issued, users>>

\* SELECT quantity FROM carts ...; new_total = current_qty + qty;
\* if new_total > stock: the item fails.
add_select_cart(c) ==
    LET cn == conns[c]
        item == cn.items[cn.i]
        qty == IF item.has_quantity THEN item.quantity ELSE 1
        current == select_cart_rows(read_carts(cn), cn.user_id, item.perfume_id, cn.size)
        current_qty == IF current = {} THEN 0 ELSE (CHOOSE r \in current : TRUE).quantity
        total == new_total(current_qty, qty)
    IN
    /\ cn.pc = "cart"
    /\ conns' = [conns EXCEPT ![c] =
            IF exceeds_stock(total, cn.stock) THEN add_item_failed(cn)
            ELSE [cn EXCEPT !.pc = "upsert", !.total = total]]
    /\ UNCHANGED <<tables, auto_inc, now, req, resp, ledger, issued, users>>

\* INSERT INTO carts ... ON DUPLICATE KEY UPDATE quantity = VALUES(quantity)
add_upsert(c) ==
    LET cn == conns[c]
        row == [user_id |-> cn.user_id, perfume_id |-> cn.items[cn.i].perfume_id,
                size |-> cn.size, quantity |-> cn.total]
    IN
    /\ cn.pc = "upsert"
    /\ ~KeyLockedByOther(c, cart_unique_key(row))
    /\ conns' = [conns EXCEPT ![c] =
            add_next([cn EXCEPT !.rows = upsert_cart(@, row),
                                !.keys = @ \cup {cart_unique_key(row)},
                                !.added = @ + 1])]
    /\ UNCHANGED <<tables, auto_inc, now, req, resp, ledger, issued, users>>

\* The upsert waits for the key and the store gives up: rollback, 500.
add_lock_wait_fails(c) ==
    LET cn == conns[c] IN
    /\ cn.pc = "upsert"
    /\ KeyLockedByOther(c, <<cn.user_id, cn.items[cn.i].perfume_id, Coalesce(cn.size)>>)
    /\ conns' = [conns EXCEPT ![c] = Discarded(cn, 500)]
    /\ UNCHANGED <<tables, auto_inc, now, req, resp, ledger, issued, users>>

\* conn.commit() and the response: 201, 207 or 400.
add_commit(c) ==
    LET cn == conns[c] IN
    /\ cn.pc = "commit"
    /\ carts' = UpsertAll(carts, cn.rows)
    /\ conns' = [conns EXCEPT ![c] =
            Returned(cn, IF cn.errors > 0 /\ cn.added = 0 THEN 400
                         ELSE IF cn.errors > 0 THEN 207 ELSE 201)]
    /\ UNCHANGED <<perfumes, orders, order_items, payment_details,
                   auto_inc, now, req, resp, ledger, issued, users>>

RaceItems ==
    {CartItem(p, q, Null) : p \in {1, 2}, q \in 1 .. MaxQty} \cup {CartItem(3, 1, Null)}

\* Both connections serve customer 1.
AddBegin == \E c \in ConnIds, item \in RaceItems : add_begin(c, 1, <<item>>)
AddSelectPerfume == \E c \in ConnIds : add_select_perfume(c)
AddSelectCart == \E c \in ConnIds : add_select_cart(c)
AddUpsert == \E c \in ConnIds : add_upsert(c)
AddLockWaitFails == \E c \in ConnIds : add_lock_wait_fails(c)
AddCommit == \E c \in ConnIds : add_commit(c)

NextCartRace ==
    \/ AddBegin \/ AddSelectPerfume \/ AddSelectCart
    \/ AddUpsert \/ AddLockWaitFails \/ AddCommit

SpecCartRace == Init /\ [][NextCartRace]_vars

(***************************************************************************)
(* SpecToken: the clock advances; logins hand out tokens; the clients      *)
(* present the tokens they were handed, raw, at any later time.            *)
(***************************************************************************)
Tick ==
    /\ now < MaxTime
    /\ now' = now + 1
    /\ UNCHANGED <<tables, auto_inc, req, resp, ledger, conns, issued, users>>

LoginAttempts ==
    {Credentials(u, "right") : u \in {1, 3}}
    \cup {Credentials(1, "wrong"), Credentials(0, "right"), Credentials(1, ""),
          Credentials(MissingPerfume, "right"), NoCredentials}

IssuedHeaders == {[present |-> TRUE, bearer |-> FALSE, tok |-> k] : k \in issued}

TokenAdminLogin == admin_login(LoginAttempts, {NoFault, 0})
TokenCustomerLogin == customer_login(LoginAttempts, {NoFault, 0})
TokenAddToCart == add_to_cart(IssuedHeaders, {<<<<CartItem(1, 1, Null)>>, NoFault>>})
TokenViewCart == view_cart(IssuedHeaders, {NoFault})
TokenAdminListPayments == admin_list_payments(IssuedHeaders, {NoFault})
TokenDashboard == dashboard(IssuedHeaders)

NextToken ==
    \/ Tick \/ TokenAdminLogin \/ TokenCustomerLogin
    \/ TokenAddToCart \/ TokenViewCart \/ TokenAdminListPayments \/ TokenDashboard

SpecToken == Init /\ [][NextToken]_vars

(***************************************************************************)
(* SpecUsers: two customers shop side by side; every payload carries a     *)
(* user_id key naming the other customer, which no handler reads.          *)
(***************************************************************************)
\* A JSON object with one more key, user_id.
WithUserId(d, u) == d @@ [user_id |-> u]
OtherCustomer(u) == CHOOSE x \in Customers : x # u

UsersItems(u) ==
    {<<<<WithUserId(CartItem(p, 1, Null), OtherCustomer(u))>>, NoFault>> : p \in {1, 2}}
UsersOrders(u) ==
    {<<WithUserId(Order(pm, <<Line(1, 1)>>), OtherCustomer(u)), NoFault>> :
        pm \in {"cod", "card"}}

UsersAdd == \E u \in Customers : add_to_cart({TokenOf(u, now)}, UsersItems(u))
UsersView == view_cart(CustomerHeaders(now), {NoFault})
UsersRemove == remove_from_cart(CustomerHeaders(now), {1, 2}, {NoFault})
UsersCheckout ==
    /\ auto_inc < MaxOrders
    /\ \E u \in Customers : checkout({TokenOf(u, now)}, UsersOrders(u))
UsersGetOrders == get_orders(CustomerHeaders(now), {NoFault})
UsersRecentOrders == recent_orders(CustomerHeaders(now), {LimitArg(1)}, {NoFault})

NextUsers ==
    \/ UsersAdd \/ UsersView \/ UsersRemove \/ UsersCheckout
    \/ UsersGetOrders \/ UsersRecentOrders

SpecUsers == Init /\ [][NextUsers]_vars

(***************************************************************************)
(* SpecBatch: one customer posts batches of one or two items to a store    *)
(* that never fails, and removes perfumes from the cart in between.        *)
(***************************************************************************)
BatchItems ==
    {CartItem(1, q, Null) : q \in 1 .. MaxQty}
    \cup {CartItem(2, 1, Null), CartItem(3, 1, Null), CartItem(MissingPerfume, 1, Null),
          CartItem(1, 1, "100ml"), InvalidItem, NoKeyItem}
BatchRequests ==
    {<<<<a>>, NoFault>> : a \in BatchItems}
    \cup {<<<<a, b>>, NoFault>> : a, b \in BatchItems}
    \cup {<<<<>>, NoFault>>}

BatchAdd == add_to_cart(CartHeaders(now), BatchRequests)
BatchView == view_cart(CartHeaders(now), {NoFault})
BatchRemove == remove_from_cart(CartHeaders(now), {1, 2}, {NoFault})

NextBatch == BatchAdd \/ BatchView \/ BatchRemove

SpecBatch == Init /\ [][NextBatch]_vars

(***************************************************************************)
(* SpecPay: a customer places card and cash-on-delivery orders with good   *)
(* and bad card details; the admin lists the payments and ships an order.  *)
(***************************************************************************)
\* A card whose last group is written with a space inside.
SpacedCard == [cardName |-> "B. Buyer",
               cardNumber |-> <<"4", "0", "0", "0", " ", "1", "2", "3", "4", " ",
                                "5", "6", "7", "8", " ", "9", "0", " ", "1", "7">>,
               expiry |-> "01/29", cvv |-> <<"9", "8", "7", "6">>]
\* Twelve digits.
ShortCard == [GoodCard EXCEPT !.cardNumber =
                 <<"4", "1", "1", "1", " ", "1", "1", "1", "1", " ", "1", "1", "1", "1">>]
LetterCvvCard == [GoodCard EXCEPT !.cvv = <<"1", "2", "x">>]
BlankNameCard == [GoodCard EXCEPT !.cardName = " "]

Pay(pm, card, items) == [Order(pm, items) EXCEPT !.card = card]

PayCheckouts ==
    {<<Pay("cod", NoCard, <<Line(1, 1)>>), NoFault>>,
     <<Pay("Cod", GoodCard, <<Line(2, 1)>>), NoFault>>,
     <<Pay("card", GoodCard, <<Line(1, 1)>>), NoFault>>,
     <<Pay("CARD", SpacedCard, <<Line(1, 1)>>), NoFault>>,
     <<Pay("card", NoCard, <<Line(1, 1)>>), NoFault>>,
     <<Pay("card", ShortCard, <<Line(1, 1)>>), NoFault>>,
     <<Pay("card", LetterCvvCard, <<Line(1, 1)>>), NoFault>>,
     <<Pay("card", BlankNameCard, <<Line(1, 1)>>), NoFault>>,
     <<Pay("paypal", GoodCard, <<Line(1, 1)>>), NoFault>>,
     <<Pay("card", GoodCard, <<Line(1, 1)>>), 5>>,      \* the card INSERT raises
     <<Pay("card", GoodCard, <<Line(1, 1)>>), 8>>}      \* conn.commit() raises

AdminHeaders(t) == {TokenOf(a, t) : a \in Admins}

PayCheckout ==
    /\ auto_inc < MaxOrders + 1
    /\ checkout({TokenOf(1, now)}, PayCheckouts)
PayListPayments == admin_list_payments(AdminHeaders(now), {NoFault})
PayGetOrder == admin_get_order(AdminHeaders(now), {1}, {NoFault})
PayUpdateStatus ==
    admin_update_order_status(AdminHeaders(now),
        {<<1, StatusText("shipped", "plain"), NoStatus, NoFault>>})

NextPay == PayCheckout \/ PayListPayments \/ PayGetOrder \/ PayUpdateStatus

SpecPay == Init /\ [][NextPay]_vars

(***************************************************************************)
(* SpecOrders: the customers place orders, the admin moves the orders'     *)
(* statuses, customer 1 keeps using the cart.                              *)
(***************************************************************************)
\* The last order that can exist, and an id no order has.
LastOrder == MaxOrders + 1
MissingOrder == MaxOrders + 2

StatusTexts ==
    {StatusText(s, "plain") : s \in allowed}
    \cup {StatusText("shipped", "raw"), StatusText("refunded", "plain"),
          StatusText("refunded", "raw"), StatusText("", "plain")}
OrdersUpdates ==
    {<<1, s, NoStatus, NoFault>> : s \in StatusTexts}
    \cup {<<o, StatusText(s, "plain"), NoStatus, NoFault>> :
            o \in {LastOrder, MissingOrder}, s \in {"pending", "cancelled", "refunded"}}
    \cup {<<o, NoStatus, s, NoFault>> :
            o \in {1, MissingOrder}, s \in {StatusText("delivered", "plain"), NoStatus}}
    \cup {<<1, StatusText("", "plain"), StatusText("cancelled", "raw"), NoFault>>}
    \cup {<<1, StatusText("cancelled", "plain"), NoStatus, f>> : f \in {0, 1, 2, 3}}

OrdersCheckout ==
    /\ auto_inc < MaxOrders + 1
    /\ \/ checkout({TokenOf(1, now)}, {<<Pay("card", GoodCard, <<Line(1, 1)>>), NoFault>>})
       \/ checkout({TokenOf(2, now)}, {<<Pay("cod", NoCard, <<Line(1, 1)>>), NoFault>>})
OrdersUpdateStatus == admin_update_order_status(AdminHeaders(now), OrdersUpdates)
OrdersAdd == add_to_cart({TokenOf(1, now)}, {<<<<CartItem(1, 1, Null)>>, NoFault>>})
OrdersRemove == remove_from_cart({TokenOf(1, now)}, {1}, {NoFault})

NextOrders == OrdersCheckout \/ OrdersUpdateStatus \/ OrdersAdd \/ OrdersRemove

SpecOrders == Init /\ [][NextOrders]_vars

(***************************************************************************)
(* SpecRecent: two customers place orders and ask for their recent orders  *)
(* with every kind of limit, while the store may fail.                     *)
(***************************************************************************)
LimitArgs ==
    {LimitArg(v) : v \in {0 - 1, 0, 1, MaxOrders + 1, 20, 25}} \cup {TextLimit, NoLimit}

RecentCheckout ==
    /\ auto_inc < MaxOrders + 2
    /\ checkout(CustomerHeaders(now),
                {<<Pay("cod", NoCard, <<Line(p, 1)>>), NoFault>> : p \in {1, 2}})
\* Faults: the connection, the orders query, the items query of the first
\* and of the second order.
RecentOrders == recent_orders(CustomerHeaders(now), LimitArgs, {NoFault, 0, 1, 2, 3})
RecentGetOrders == get_orders(CustomerHeaders(now), {NoFault})

NextRecent == RecentCheckout \/ RecentOrders \/ RecentGetOrders

SpecRecent == Init /\ [][NextRecent]_vars

(***************************************************************************)
(* SpecValidate: checkouts with every kind of validation error beside      *)
(* checkouts that pass.                                                    *)
(***************************************************************************)
ValidateCheckouts ==
    {<<d, NoFault>> : d \in
        {Pay("cod", NoCard, <<Line(1, 1)>>),
         Pay("card", GoodCard, <<Line(2, 1)>>),
         [Pay("cod", NoCard, <<Line(1, 1)>>) EXCEPT !.has_fields = FALSE],
         Pay("upi", NoCard, <<Line(1, 1)>>),
         Pay("cod", NoCard, <<>>),
         [Pay("cod", NoCard, <<Line(1, 1)>>) EXCEPT !.shipping_ok = FALSE],
         Pay("card", NoCard, <<Line(1, 1)>>),
         Pay("card", ShortCard, <<Line(1, 1)>>),
         Pay("card", LetterCvvCard, <<Line(1, 1)>>),
         Pay("cod", NoCard, <<MalformedLine>>),
         Pay("cod", NoCard, <<Line(1, 0)>>),
         Pay("cod", NoCard, <<Line(1, 1), MalformedLine>>),
         Pay("cod", NoCard, <<Line(1, 1), Line(1, 0 - 1)>>),
         Pay("cod", NoCard, <<Line(1, MaxStock + 1)>>)}}

ValidateCheckout ==
    /\ auto_inc < MaxOrders + 2
    /\ checkout(CustomerHeaders(now), ValidateCheckouts)
ValidateAdd ==
    add_to_cart(CustomerHeaders(now), {<<<<CartItem(1, 1, Null)>>, NoFault>>})
ValidateGetOrders == get_orders(CustomerHeaders(now), {NoFault})

NextValidate == ValidateCheckout \/ ValidateAdd \/ ValidateGetOrders

SpecValidate == Init /\ [][NextValidate]_vars

(***************************************************************************)
(* SpecCard: card checkouts with well-formed and ill-formed card data.     *)
(***************************************************************************)
Repeat(c, n) == [i \in 1 .. n |-> c]
CardNumbered(number) == [GoodCard EXCEPT !.cardNumber = number]
\* Thirteen and nineteen digits, twenty digits, and numbers of thirteen
\* and sixteen characters that are not all digits.
CardNumbers ==
    {Repeat("4", 13), Repeat("4", 19), Repeat("4", 20), Repeat("4", 12),
     Repeat("x", 13), <<"4", "1", "1", "1", "-", "1", "1", "1", "1", "-",
                        "1", "1", "1", "1", "-", "1", "1", "1", "1">>,
     Repeat(" ", 3)}
Cards ==
    {GoodCard, SpacedCard, NoCard, LetterCvvCard, BlankNameCard,
     [GoodCard EXCEPT !.expiry = " "],
     [GoodCard EXCEPT !.cvv = Repeat("1", 2)],
     [GoodCard EXCEPT !.cvv = Repeat("1", 4)],
     [GoodCard EXCEPT !.cvv = Repeat("1", 5)],
     [GoodCard EXCEPT !.cvv = <<>>]}
    \cup {CardNumbered(n) : n \in CardNumbers}
CardCheckouts ==
    {<<Pay("card", c, <<Line(p, 1)>>), NoFault>> : c \in Cards, p \in {1, 2}}
    \cup {<<Pay("cod", c, <<Line(1, 1)>>), NoFault>> : c \in {NoCard, LetterCvvCard}}

CardCheckout ==
    /\ auto_inc < MaxOrders + 1
    /\ checkout({TokenOf(1, now)}, CardCheckouts)
CardListPayments == admin_list_payments(AdminHeaders(now), {NoFault})

NextCard == CardCheckout \/ CardListPayments

SpecCard == Init /\ [][NextCard]_vars

(***************************************************************************)
(* SpecSignup: admins and customers sign up, log in and present their      *)
(* tokens to an Admin-only and to a Customer-only endpoint.                *)
(***************************************************************************)
NewNames == {4, 5}
SignupRequests ==
    {Signup(n, Email(n), n, "secret", "secret") : n \in NewNames}
    \cup {Signup(4, Email(5), 5, "secret", "secret"),
          Signup(1, Email(4), 4, "secret", "secret"),
          Signup(4, Email(4), 4, "secret", "other-"),
          Signup(4, Email(4), 4, "short", "short"),
          Signup(4, EmailWithoutAt(4), 4, "secret", "secret"),
          Signup(4, Email(4), 0, "secret", "secret"),
          NoSignup}
SignupLogins ==
    {Credentials(u, pw) : u \in {1, 3} \cup NewNames, pw \in {"right", "secret"}}

SignupAdmin == admin_signup(SignupRequests, {NoFault, 0, 1, 2})
SignupCustomer == customer_signup(SignupRequests, {NoFault, 0, 1, 2})
SignupAdminLogin == admin_login(SignupLogins, {NoFault})
SignupCustomerLogin == customer_login(SignupLogins, {NoFault})
SignupListPayments == admin_list_payments(IssuedHeaders, {NoFault})
SignupViewCart == view_cart(IssuedHeaders, {NoFault})

NextSignup ==
    \/ SignupAdmin \/ SignupCustomer \/ SignupAdminLogin \/ SignupCustomerLogin
    \/ SignupListPayments \/ SignupViewCart

SpecSignup == Init /\ [][NextSignup]_vars

(***************************************************************************)
(* SpecSignupRace: two signups run interleaved, each an INSERT and a       *)
(* commit on its own connection.  An INSERT that collides on a unique key  *)
(* with a committed row raises IntegrityError; one that collides with a    *)
(* row another transaction has inserted and not yet committed waits for    *)
(* that transaction, or gives up when the lock wait times out.             *)
(***************************************************************************)
\* The users rows inserted and not yet committed, by the other connections.
pending_users(c) == UNION {conns[d].rows : d \in ConnIds \ {c}}

signup_op(role) == IF role = ROLE_ADMIN THEN "admin_signup" ELSE "customer_signup"

\* The handler up to the INSERT, on connection c.
signup_insert(c, role, data) ==
    LET invalid == validate_signup(data)
        row == insert_user(users \cup pending_users(c), data, role)
    IN
    /\ conns[c].pc = "idle"
    /\ req' = Request(signup_op(role), NoHeader, data)
    /\ IF invalid # ""
       THEN /\ resp' = Response(signup_op(role), NoUser, 400, invalid, NoBody)
            /\ UNCHANGED conns
       ELSE IF duplicate_keys(users, row) # {}
       THEN /\ \E k \in duplicate_keys(users, row) :
                 resp' = Response(signup_op(role), NoUser, 400, duplicate_message(k), NoBody)
            /\ UNCHANGED conns
       ELSE /\ duplicate_keys(pending_users(c), row) = {}     \* else it waits
            /\ resp' = Response(signup_op(role), NoUser, 0, "", NoBody)
            /\ conns' = [conns EXCEPT ![c] =
                            [IdleConn EXCEPT !.pc = "inserted", !.rows = {row},
                                             !.items = <<data>>]]
    /\ UNCHANGED <<tables, auto_inc, now, ledger, issued, users>>

\* The INSERT waits for a row of the other transaction and times out.
signup_lock_wait_fails(c, role, data) ==
    LET row == insert_user(users \cup pending_users(c), data, role) IN
    /\ conns[c].pc = "idle"
    /\ validate_signup(data) = ""
    /\ duplicate_keys(pending_users(c), row) # {}
    /\ req' = Request(signup_op(role), NoHeader, data)
    /\ resp' = Response(signup_op(role), NoUser, 500, "Database error occurred", NoBody)
    /\ UNCHANGED <<tables, auto_inc, now, ledger, conns, issued, users>>

\* conn.commit() and the 201; ok = FALSE: the commit raises.
signup_commit(c, ok) ==
    LET row == CHOOSE r \in conns[c].rows : TRUE IN
    /\ conns[c].pc = "inserted"
    /\ req' = Request(signup_op(row.role_id), NoHeader, conns[c].items[1])
    /\ IF ok
       THEN /\ users' = users \cup {row}
            /\ resp' = Response(signup_op(row.role_id), row.id, 201,
                                "registered successfully!", NoBody)
       ELSE /\ UNCHANGED users
            /\ resp' = Response(signup_op(row.role_id), NoUser, 500,
                                "Database error occurred", NoBody)
    /\ conns' = [conns EXCEPT ![c] = IdleConn]
    /\ UNCHANGED <<tables, auto_inc, now, ledger, issued>>

RaceSignups ==
    {Signup(n, Email(n), n, "secret", "secret") : n \in NewNames}
    \cup {Signup(4, Email(5), 5, "secret", "secret"),
          Signup(5, Email(4), 1, "secret", "secret"),
          Signup(3, Email(4), 4, "secret", "secret"),
          Signup(5, Email(2), 5, "secret", "secret"),
          Signup(4, EmailWithoutAt(4), 4, "secret", "secret")}
Roles == {ROLE_ADMIN, ROLE_CUSTOMER}

\* The ids handed out are capped: every new name once, and one more.
LastUserId == Cardinality(Users) + Cardinality(NewNames) + 1

SignupInsert == \E c \in ConnIds, role \in Roles, data \in RaceSignups :
                    /\ next_user_id(users \cup pending_users(c)) <= LastUserId
                    /\ signup_insert(c, role, data)
SignupLockWaitFails == \E c \in ConnIds, role \in Roles, data \in RaceSignups :
                           signup_lock_wait_fails(c, role, data)
SignupCommit == \E c \in ConnIds : signup_commit(c, TRUE)
SignupCommitFails == \E c \in ConnIds : signup_commit(c, FALSE)
SignupRaceLogin == customer_login({Credentials(n, "secret") : n \in NewNames}, {NoFault})

NextSignupRace ==
    \/ SignupInsert \/ SignupLockWaitFails \/ SignupCommit \/ SignupCommitFails
    \/ SignupRaceLogin

SpecSignupRace == Init /\ [][NextSignupRace]_vars

(***************************************************************************)
(* SpecLines: orders with several lines and batches with several items     *)
(* for the same perfume.                                                   *)
(***************************************************************************)
LinesOrders ==
    LET lines == {Line(1, 1), Line(1, MaxStock), Line(2, 1)} IN
    {<<a>> : a \in lines} \cup {<<a, b>> : a \in {Line(1, 1), Line(2, 1)}, b \in lines}
    \cup {<<Line(1, 1), Line(2, 1), Line(1, 1)>>}
LinesBatches ==
    LET items == {CartItem(1, 1, Null), CartItem(1, MaxStock, Null), CartItem(1, 1, "100ml")}
    IN {<<a>> : a \in items} \cup {<<a, b>> : a, b \in items}
       \cup {<<CartItem(1, 1, Null), CartItem(1, 1, "50ml"), CartItem(1, 1, Null)>>}

LinesCheckout ==
    /\ auto_inc < MaxOrders + 1
    /\ checkout({TokenOf(1, now)}, {<<Order("cod", items), NoFault>> : items \in LinesOrders})
LinesAdd == add_to_cart({TokenOf(1, now)}, {<<items, NoFault>> : items \in LinesBatches})
LinesRemove == remove_from_cart({TokenOf(1, now)}, {1}, {NoFault})

NextLines == LinesCheckout \/ LinesAdd \/ LinesRemove

SpecLines == Init /\ [][NextLines]_vars

(***************************************************************************)
(* SpecPending: checkouts run statement by statement while customers and   *)
(* the admin read orders and the admin updates their status.  A SELECT     *)
(* ... FOR UPDATE of a row another transaction has inserted and not        *)
(* committed waits for that transaction, or gives up.                      *)
(***************************************************************************)
PendingLines == {<<Line(1, 1)>>, <<Line(2, 1)>>, <<Line(1, MaxStock + 1)>>}
UncommittedIds == {o.id : o \in uncommitted_orders}

PendingBegin ==
    \E c \in ConnIds, items \in PendingLines, pm \in {"cod", "card"} :
        checkout_begin(c, c, Order(pm, items))
PendingSelectStock == \E c \in ConnIds : checkout_select_stock(c)
PendingDecrement == \E c \in ConnIds : checkout_decrement(c)
PendingLockWaitFails == \E c \in ConnIds : checkout_lock_wait_fails(c)
PendingCommit == \E c \in ConnIds : checkout_commit(c)
PendingGetOrders == get_orders(CustomerHeaders(now), {NoFault})
PendingRecentOrders == recent_orders(CustomerHeaders(now), {NoLimit}, {NoFault})
PendingListOrders ==
    admin_list_orders(AdminHeaders(now), {ListArgs(1, 20, "", 0)}, {NoFault})
PendingGetOrder == admin_get_order(AdminHeaders(now), ConnIds, {NoFault})
PendingUpdateStatus ==
    \E id \in ConnIds :
        /\ id \notin UncommittedIds         \* else the locking read waits
        /\ admin_update_order_status(AdminHeaders(now),
               {<<id, StatusText("shipped", "plain"), NoStatus, NoFault>>})
PendingUpdateLockWaitFails ==
    \E id \in UncommittedIds :
        admin_update_order_status(AdminHeaders(now),
            {<<id, StatusText("shipped", "plain"), NoStatus, 1>>})

NextPending ==
    \/ PendingBegin \/ PendingSelectStock \/ PendingDecrement
    \/ PendingLockWaitFails \/ PendingCommit
    \/ PendingGetOrders \/ PendingRecentOrders \/ PendingListOrders \/ PendingGetOrder
    \/ PendingUpdateStatus \/ PendingUpdateLockWaitFails

SpecPending == Init /\ [][NextPending]_vars

(***************************************************************************)
(* Properties of Spec                                                      *)
(***************************************************************************)
CartOf(tbl, u) == {r \in tbl : r.user_id = u}
OthersCarts(tbl, u) == {r \in tbl : r.user_id # u}
\* What GET /cart would list for u now.
ViewOf(u) == view_rows(Store, u)

\* C1: over every sequence of add-to-cart and checkout calls run one after
\* another, by any user, every perfume's stock is >= 0 in every committed
\* state.
C1_StockNeverNegative == \A p \in DOMAIN perfumes : perfumes[p].quantity >= 0

\* C1 witness: a checkout committed and took the last unit of perfume 1.
C1_Witness ==
    /\ resp.op = "checkout" /\ resp.code = 201
    /\ perfumes[1].quantity = 0

\* The answers of a checkout whose line item failed the availability or
\* stock check.
StockCheckFailed(r) ==
    /\ r.op = "checkout"
    /\ \/ r.code = 404 /\ r.error = "Perfume ID not found or unavailable"
       \/ r.code = 400 /\ r.error = "Only {quantity} left of {name}"

\* C3: when a line item of a checkout fails the availability or stock
\* check, the call persists no order, no order item and no stock decrement,
\* whatever the earlier lines of the call wrote.
C3_FailedLinePersistsNothing ==
    [][StockCheckFailed(resp') =>
          /\ orders' = orders
          /\ order_items' = order_items
          /\ perfumes' = perfumes]_vars

\* C3 witness: the second line failed the check after the first line had
\* been inserted and its stock decremented.
C3_Witness == StockCheckFailed(resp) /\ resp.done >= 1

\* The answers of a checkout that opened its transaction and did not commit.
CheckoutAborted(r) ==
    /\ r.op = "checkout"
    /\ r.code # 201
    /\ r.error \in {"Invalid item data format", "Quantity must be positive",
                    "Perfume ID not found or unavailable",
                    "Only {quantity} left of {name}",
                    "Order failed. Please try again later."}

\* C4: a checkout that ends in anything but 201 after its transaction was
\* opened leaves orders, order items, payment details, stock and cart rows
\* as they were, also when a non-positive quantity is rejected after
\* earlier lines were written.
C4_AbortedCheckoutPersistsNothing ==
    [][CheckoutAborted(resp') => tables' = tables]_vars

\* C4 witness: a non-positive quantity was rejected after an earlier line
\* of the same call had been inserted and decremented.
C4_Witness ==
    /\ resp.op = "checkout" /\ resp.code = 400
    /\ resp.error = "Quantity must be positive"
    /\ resp.done >= 1

\* C8: a checkout answered 201 leaves the user no cart row (the view is
\* empty), whatever perfumes and sizes the rows held, and leaves every
\* other user's rows alone; the user's cart stays empty until that user's
\* next add-to-cart.
C8_CheckoutClearsCart ==
    [][/\ \A u \in Customers :
            (resp'.op = "checkout" /\ resp'.code = 201 /\ resp'.user = u) =>
                /\ CartOf(carts', u) = {}
                /\ ViewOf(u)' = {}
                /\ OthersCarts(carts', u) = OthersCarts(carts, u)
       /\ \A u \in Customers :
            (CartOf(carts, u) = {} /\ CartOf(carts', u) # {}) =>
                (resp'.op = "add_to_cart" /\ resp'.user = u)]_vars

\* C8 witness: a checkout was answered 201 while another user's cart holds
\* rows.
C8_Witness ==
    /\ resp.op = "checkout" /\ resp.code = 201
    /\ OthersCarts(carts, resp.user) # {}

(***************************************************************************)
(* Properties of SpecCart                                                  *)
(***************************************************************************)
\* The cart ledger as the contract reads it: per (user, perfume, size with
\* an absent size as ''), the quantity held.
CartLedger == {[key |-> cart_unique_key(r), quantity |-> r.quantity] : r \in carts}

\* C5: over any sequence of add-to-cart calls of a user there is at most
\* one cart row per (user, perfume, effective size), the effective size
\* being the size sent or, when none is sent, the perfume's canonical size,
\* and the row's quantity is the sum of the quantities of the accepted
\* additions for that key, counted since the key's rows were last deleted
\* by a remove or a checkout.
C5_OneRowPerKeyWithSum ==
    /\ \A r1, r2 \in carts :
          (r1.user_id = r2.user_id /\ r1.perfume_id = r2.perfume_id
           /\ Coalesce(r1.size) = Coalesce(r2.size)) => r1 = r2
    /\ CartLedger = ledger

\* C5 witness: one batch added perfume 1 without a size and with its
\* canonical size "50ml"; both additions landed in the same row.
C5_Witness ==
    /\ resp.op = "add_to_cart" /\ resp.code = 201
    /\ Len(req.data) = 2
    /\ req.data[1].size = Null /\ req.data[2].size = "50ml"
    /\ resp.body.added[2].total_in_cart =
          resp.body.added[1].total_in_cart + req.data[2].quantity
    /\ Cardinality({r \in carts : r.perfume_id = 1 /\ r.size = "50ml"}) = 1

\* A request with one well-formed item for a perfume on sale.
OneItemOnSale(r) ==
    /\ r.op = "add_to_cart"
    /\ Len(r.data) = 1
    /\ r.data[1].kind = "ok"
    /\ r.data[1].perfume_id \in DOMAIN perfumes
    /\ perfumes[r.data[1].perfume_id].available

AskedQty(item) == IF item.has_quantity THEN item.quantity ELSE 1
AskedSize(item) ==
    IF ~Falsy(item.size) THEN item.size ELSE CatalogSize(item.perfume_id)
\* The quantity the cart `tbl` holds for the key of `item`, 0 without a row.
Held(tbl, u, item) ==
    LET rows == {r \in tbl : r.user_id = u /\ r.perfume_id = item.perfume_id
                             /\ Coalesce(r.size) = Coalesce(AskedSize(item))}
    IN IF rows = {} THEN 0 ELSE (CHOOSE r \in rows : TRUE).quantity

\* C6: an item for a perfume on sale is rejected exactly when the quantity
\* already in the cart for its key plus the requested quantity exceeds the
\* perfume's stock (a total equal to the stock is accepted); a rejected
\* item leaves the cart as it was and its error reports the stock and the
\* quantity already in the cart.
C6_RejectedIffOverStock ==
    [][(OneItemOnSale(req') /\ resp'.user # NoUser /\ resp'.code # 500) =>
         LET item == req'.data[1]
             have == Held(carts, resp'.user, item)
             stock == perfumes[item.perfume_id].quantity
             over == have + AskedQty(item) > stock
         IN /\ over <=> (resp'.code = 400 /\ Len(resp'.body.errors) = 1)
            /\ ~over <=> (resp'.code = 201 /\ Len(resp'.body.added) = 1)
            /\ over =>
                 /\ carts' = carts
                 /\ resp'.body.errors[1] =
                       ItemError(item.perfume_id,
                                 "Only {stock} in stock (you have {current_qty})",
                                 stock, have)
            /\ ~over => Held(carts', resp'.user, item) = have + AskedQty(item)]_vars

\* C6 witness: with rows already in the cart an addition was rejected.
C6_Witness ==
    /\ OneItemOnSale(req) /\ resp.code = 400
    /\ resp.body.errors[1].have >= 1
    /\ resp.body.errors[1].have + req.data[1].quantity > resp.body.errors[1].stock

\* C6 second case: an addition that brings the total exactly to the stock
\* was accepted.
C6_AtStockAccepted ==
    /\ OneItemOnSale(req) /\ resp.code = 201
    /\ resp.body.added[1].total_in_cart = perfumes[req.data[1].perfume_id].quantity

(***************************************************************************)
(* Properties of SpecAuth                                                  *)
(***************************************************************************)
AdminOnly == {"admin_list_orders", "admin_get_order", "admin_update_order_status",
              "admin_list_payments"}
CustomerOnly == {"add_to_cart", "view_cart", "remove_from_cart", "checkout",
                 "get_orders", "recent_orders"}
Protected == AdminOnly \cup CustomerOnly \cup {"dashboard", "user_details"}

\* The header carries, raw, a token the login signed for `role` that has
\* not expired at time t.
ValidRawToken(hdr, t, role) ==
    /\ hdr.present /\ ~hdr.bearer
    /\ hdr.tok.sig = "good" /\ hdr.tok.exp > t /\ hdr.tok.role_id = role

RoleMismatch(r, t) ==
    \/ r.op \in AdminOnly /\ ValidRawToken(r.hdr, t, ROLE_CUSTOMER)
    \/ r.op \in CustomerOnly /\ ValidRawToken(r.hdr, t, ROLE_ADMIN)

\* C9: a valid, unexpired Customer token is answered 403 on every
\* Admin-only endpoint and a valid Admin token 403 on every Customer-only
\* endpoint; the handler body does not run (no user is bound, the response
\* has no body) and no store state changes.
C9_RoleMismatchForbidden ==
    [][RoleMismatch(req', now) =>
          /\ resp'.op = req'.op /\ resp'.code = 403
          /\ resp'.user = NoUser /\ resp'.body = NoBody
          /\ tables' = tables /\ auto_inc' = auto_inc /\ ledger' = ledger]_vars

\* A customer token was refused on the status update of an existing order.
C9_Witness ==
    /\ req.op = "admin_update_order_status"
    /\ ValidRawToken(req.hdr, now, ROLE_CUSTOMER)
    /\ resp.op = "admin_update_order_status" /\ resp.code = 403
    /\ orders # {}

\* C10: on every protected endpoint a header value that starts with the
\* bearer marker is answered 401, whatever token follows the marker, and
\* nothing in the store changes.
C10_BearerPrefixedRejected ==
    [][(req'.op \in Protected /\ req'.hdr.present /\ req'.hdr.bearer) =>
          /\ resp'.op = req'.op /\ resp'.code = 401
          /\ tables' = tables /\ auto_inc' = auto_inc /\ ledger' = ledger]_vars

\* GET /dashboard refused a bearer-prefixed token that is valid when sent raw.
C10_Witness ==
    /\ req.op = "dashboard" /\ req.hdr.present /\ req.hdr.bearer
    /\ req.hdr.tok.sig = "good" /\ req.hdr.tok.exp > now
    /\ resp.op = "dashboard" /\ resp.code = 401

(***************************************************************************)
(* Properties of SpecCheckoutRace and SpecCartRace                         *)
(***************************************************************************)
RECURSIVE SumQuantity(_)
SumQuantity(S) ==
    IF S = {} THEN 0
    ELSE LET x == CHOOSE y \in S : TRUE IN x.quantity + SumQuantity(S \ {x})

\* C2: two checkouts whose stock reads and decrements interleave never
\* reach a committed state where a perfume's stock is negative or where
\* the committed order items of a perfume total more than the stock that
\* was available.
C2_ConcurrentCheckoutsNoOversell ==
    \A p \in PerfumeIds :
        /\ perfumes[p].quantity >= 0
        /\ SumQuantity({i \in order_items : i.perfume_id = p}) <= InitialQuantity(p)

Accepted(c) == conns[c].pc = "done" /\ conns[c].code = 201

\* C7: when two concurrent additions of one customer for the same
\* (perfume, size) key are both accepted, the cart row of the key holds
\* the previous quantity (none: the cart starts empty) plus both requested
\* quantities, and no more than the perfume's stock.
C7_ConcurrentAddsNoLostUpdate ==
    \A p \in PerfumeIds :
        (\A c \in ConnIds : /\ Accepted(c)
                            /\ conns[c].items[1].perfume_id = p
                            /\ conns[c].size = conns[1].size)
        => \E r \in carts :
              /\ cart_unique_key(r) = <<1, p, Coalesce(conns[1].size)>>
              /\ r.quantity = conns[1].items[1].quantity + conns[2].items[1].quantity
              /\ r.quantity <= perfumes[p].quantity

(***************************************************************************)
(* Properties of SpecToken                                                 *)
(***************************************************************************)
Logins == {"admin_login", "customer_login"}

\* The request presents, raw, a token a login handed out, to an endpoint
\* open to the token's role.
PresentsIssued(r) ==
    /\ r.hdr.present /\ ~r.hdr.bearer /\ r.hdr.tok \in issued
    /\ \/ r.op = "dashboard"
       \/ r.op \in CustomerOnly /\ r.hdr.tok.role_id = ROLE_CUSTOMER
       \/ r.op \in AdminOnly /\ r.hdr.tok.role_id = ROLE_ADMIN

\* C11: a token handed out by a login at time t expires at t + 1 hour; it
\* is accepted at every time before that and answered 401 "Token expired"
\* at every time after it; tokens come from successful logins only and the
\* clock never runs back, so an expired token stays expired.  (At the very
\* instant t + 1 hour the decoder's version decides; the property leaves
\* that instant open.)
C11_TokenExpiresAfterOneHour ==
    [][/\ now' >= now
       /\ \A k \in issued' \ issued :
             /\ resp'.op \in Logins /\ resp'.code = 200
             /\ k.exp = now + TOKEN_TTL /\ k.sig = "good"
       /\ issued \subseteq issued'
       /\ (now' = now /\ PresentsIssued(req')) =>
             /\ now < req'.hdr.tok.exp =>
                   (resp'.code \notin {401, 403} /\ resp'.user = req'.hdr.tok.user_id)
             /\ now > req'.hdr.tok.exp =>
                   (resp'.code = 401 /\ resp'.error = "Token expired"
                    /\ tables' = tables)]_vars

\* A token handed out earlier was answered "Token expired" on POST /cart.
C11_Witness ==
    /\ req.op = "add_to_cart" /\ req.hdr.present /\ req.hdr.tok \in issued
    /\ now > req.hdr.tok.exp
    /\ resp.op = "add_to_cart" /\ resp.code = 401 /\ resp.error = "Token expired"

\* A token was accepted in the last half hour before its expiry.
C11_AcceptedBeforeExpiry ==
    /\ req.op = "add_to_cart" /\ req.hdr.present /\ req.hdr.tok \in issued
    /\ now = req.hdr.tok.exp - 1
    /\ resp.op = "add_to_cart" /\ resp.code = 201

(***************************************************************************)
(* Properties of SpecUsers                                                 *)
(***************************************************************************)
\* C12: a cart or order operation acts on the user its token names and on
\* nobody else: whatever the payload says, no cart row of another user is
\* created, changed or deleted; every order created belongs to the caller;
\* the cart view and the two order views list the caller's rows only.
C12_OnlyTheTokensUser ==
    [][LET a == resp'.user IN
       /\ \A b \in Customers : b # a => CartOf(carts', b) = CartOf(carts, b)
       /\ \A o \in orders' \ orders : o.user_id = a /\ resp'.op = "checkout"
       /\ resp'.op = "view_cart" =>
             \A r \in resp'.body.rows :
                \E c \in CartOf(carts, a) :
                    c.perfume_id = r.perfume_id /\ c.quantity = r.quantity
       /\ resp'.op \in {"get_orders", "recent_orders"} =>
             \A r \in resp'.body.rows :
                r.user_id = a /\ \E o \in orders : o.id = r.id /\ o.user_id = a]_vars

\* C12 witness: a customer's add, whose item names the other customer in a
\* user_id key, was accepted while the other customer holds cart rows.
C12_Witness ==
    /\ resp.op = "add_to_cart" /\ resp.code = 201 /\ resp.user \in Customers
    /\ req.data # <<>> /\ req.data[1].user_id = OtherCustomer(resp.user)
    /\ CartOf(carts, OtherCustomer(resp.user)) # {}
    /\ CartOf(carts, resp.user) # {}

\* A customer removed a perfume the other customer holds too.
C12_RemoveBesideOther ==
    /\ resp.op = "remove_from_cart" /\ resp.code = 200
    /\ \E r \in CartOf(carts, OtherCustomer(resp.user)) :
          \A c \in CartOf(carts, resp.user) : c.perfume_id # r.perfume_id

\* A customer asked for the orders while the other customer has one.
C12_OrdersBesideOther ==
    /\ resp.op \in {"get_orders", "recent_orders"} /\ resp.code = 200
    /\ resp.user \in Customers
    /\ \E o \in orders : o.user_id = OtherCustomer(resp.user)

(***************************************************************************)
(* Properties of SpecBatch                                                 *)
(***************************************************************************)
\* The cart after the additions a response reports: each entry of `added`
\* is the row of its key, holding total_in_cart.
RECURSIVE CartWithAdded(_, _, _)
CartWithAdded(tbl, u, added) ==
    IF added = <<>> THEN tbl
    ELSE CartWithAdded(upsert_cart(tbl, [user_id |-> u,
                                         perfume_id |-> Head(added).perfume_id,
                                         size |-> Head(added).size,
                                         quantity |-> Head(added).total_in_cart]),
                       u, Tail(added))

CountErrors(errors, text) ==
    Cardinality({i \in 1 .. Len(errors) : errors[i].error = text})
\* Items whose data cannot be read: no perfume_id, or not a number.
InvalidData(items) ==
    {i \in 1 .. Len(items) : items[i].kind \in {"invalid", "nokey"}}
\* Well-formed items for a perfume that is not on sale.
Unavailable(items) ==
    {i \in 1 .. Len(items) :
        /\ items[i].kind = "ok"
        /\ select_available_perfume(perfumes, items[i].perfume_id) = {}}

\* A served POST /cart with a non-empty item list.
BatchServed(rq, rs) ==
    rs.op = "add_to_cart" /\ rs.user # NoUser /\ rq.data # <<>>

\* C13: in one batch every failing item (invalid data, perfume not on
\* sale, addition over the stock) is reported in errors and the others are
\* upserted and committed: every item is in one of the two lists, and the
\* cart after the call is the cart before it with the additions reported
\* as added.
BatchOutcome(rq, rs, before, after) ==
    LET items == rq.data
        added == rs.body.added
        errors == rs.body.errors
    IN /\ Len(added) + Len(errors) = Len(items)
       /\ CountErrors(errors, "Invalid data") = Cardinality(InvalidData(items))
       /\ CountErrors(errors, "Perfume not available") = Cardinality(Unavailable(items))
       /\ after = CartWithAdded(before, rs.user, added)

C13_FailingItemsDoNotBlock ==
    [][BatchServed(req', resp') => BatchOutcome(req', resp', carts, carts')]_vars

\* The same for the batches in which every item has a perfume_id key.
C13_WhenEveryItemNamesAPerfume ==
    [][(BatchServed(req', resp')
        /\ \A i \in 1 .. Len(req'.data) : req'.data[i].kind # "nokey")
           => BatchOutcome(req', resp', carts, carts')]_vars

\* A batch of a good item followed by one without perfume_id was answered
\* 500 and the good item is not in the cart.
C13_KeylessItemBlocksBatch ==
    /\ resp.op = "add_to_cart" /\ resp.code = 500 /\ Len(req.data) = 2
    /\ req.data[1] = CartItem(1, 1, Null) /\ req.data[2].kind = "nokey"
    /\ carts = {}

C14_AllFailed ==
    /\ BatchServed(req, resp) /\ resp.code = 400 /\ Len(resp.body.errors) = 2

\* Both items of a batch were added: 201.
C14_AllAdded ==
    /\ BatchServed(req, resp) /\ resp.code = 201 /\ Len(resp.body.added) = 2

\* An empty item list was answered 400 while the cart holds rows.
C14_EmptyList ==
    /\ resp.op = "add_to_cart" /\ resp.user # NoUser /\ req.data = <<>>
    /\ resp.code = 400 /\ carts # {}

(***************************************************************************)
(* Properties of SpecPay                                                   *)
(***************************************************************************)
\* A checkout answered 201.
Placed(rq, rs) == rs.op = "checkout" /\ rs.code = 201

\* C15: an order committed by a checkout has status paid when its payment
\* method is card and cod_pending when it is cod; the status in the 201
\* answer is the persisted one; a cod checkout needs no card details.
C15_FinalStatusByPaymentMethod ==
    [][/\ \A o \in orders' \ {x \in orders' : \E y \in orders : y.id = x.id} :
             /\ Placed(req', resp') /\ resp'.body.order_id = o.id
             /\ o.payment_method \in {"card", "cod"}
             /\ o.payment_method = "card" => o.status = "paid"
             /\ o.payment_method = "cod" => o.status = "cod_pending"
             /\ o.payment_method = lower(req'.data.payment_method)
             /\ resp'.body.status = o.status
       /\ Placed(req', resp') =>
             \E o \in orders' : o.id = resp'.body.order_id /\ o.id \notin {y.id : y \in orders}
       /\ (resp'.op = "checkout" /\ resp'.user # NoUser /\ resp'.error # ""
           /\ lower(req'.data.payment_method) = "cod") =>
             resp'.error \notin {"Card cardName is required", "Card cardNumber is required",
                                 "Invalid card number", "Card expiry is required",
                                 "Card cvv is required", "CVV must be 3 or 4 digits"}]_vars

\* C15 witness: a cod checkout without card details was answered 201 with
\* status cod_pending while a paid card order exists.
C15_Witness ==
    /\ Placed(req, resp) /\ req.data.payment_method = "cod" /\ req.data.card = NoCard
    /\ resp.body.status = "cod_pending"
    /\ \E o \in orders : o.id = resp.body.order_id /\ o.status = "cod_pending"
    /\ \E o \in orders : o.payment_method = "card" /\ o.status = "paid"

\* A card checkout sent as "CARD" was answered 201 with status paid.
C15_CardPaid ==
    /\ Placed(req, resp) /\ req.data.payment_method = "CARD"
    /\ resp.body.status = "paid"
    /\ \E o \in orders : o.id = resp.body.order_id /\ o.status = "paid"

PaymentRows(order_id) == {p \in payment_details : p.order_id = order_id}
\* The card number as sent, the card number without spaces, and the CVV.
CardSecrets(card) == {card.cardNumber, replace_spaces(card.cardNumber), card.cvv}

\* C16: in every committed state an order has a payment_details row iff
\* its payment method is card, exactly one for a card order and none for a
\* cod order; the row a card checkout writes holds the last 4 characters of
\* the card number with its spaces stripped, the holder name and the
\* expiry, and nothing else of the card: no row holds the full number or
\* the CVV.
C16_CardRowMasked ==
    /\ [](/\ \A o \in orders :
                Cardinality(PaymentRows(o.id)) = IF o.payment_method = "card" THEN 1 ELSE 0
          /\ \A p \in payment_details :
                /\ \E o \in orders : o.id = p.order_id
                /\ DOMAIN p = {"order_id", "payment_method", "card_last4",
                               "card_holder_name", "expiry"}
                /\ Len(p.card_last4) <= 4
          /\ \A o \in orders :
                DOMAIN o = {"id", "user_id", "total_amount", "payment_method", "status"})
    /\ [][/\ \A p \in payment_details' \ payment_details :
                /\ Placed(req', resp') /\ p.order_id = resp'.body.order_id
                /\ p.card_last4 =
                      last_four(SelectSeq(req'.data.card.cardNumber, LAMBDA c : c # " "))
                /\ p.card_holder_name = req'.data.card.cardName
                /\ p.expiry = req'.data.card.expiry
                /\ p.card_last4 \notin CardSecrets(req'.data.card)
          /\ payment_details \subseteq payment_details']_vars

\* C16 witness: a card order paid with the number "4000 1234 5678 90 17"
\* holds one row with last4 "9017", beside a cod order, sent with card
\* details, that holds none.
C16_Witness ==
    /\ \E o \in orders :
          /\ o.payment_method = "card"
          /\ \E p \in PaymentRows(o.id) :
                /\ p.card_last4 = <<"9", "0", "1", "7">>
                /\ p.card_holder_name = SpacedCard.cardName
                /\ p.expiry = SpacedCard.expiry
    /\ \E o \in orders : o.payment_method = "cod" /\ PaymentRows(o.id) = {}
    /\ Placed(req, resp) /\ req.data.payment_method = "Cod" /\ req.data.card = GoodCard

(***************************************************************************)
(* Properties of SpecOrders                                                *)
(***************************************************************************)
SixStatuses == {"pending", "paid", "cod_pending", "shipped", "delivered", "cancelled"}

\* A PATCH of an order's status that passed the admin check.
UpdateServed(rq, rs) == rs.op = "admin_update_order_status" /\ rs.user # NoUser
\* The status the request asks for: the body's when it has a non-empty
\* one, else the query's; its text is what trimming and lower-casing leave.
Requested(rq) ==
    IF rq.data.json_status.given /\ rq.data.json_status.text # ""
    THEN rq.data.json_status ELSE rq.data.query_status

\* C17: a status update whose requested status, trimmed and lower-cased,
\* is not one of pending, paid, cod_pending, shipped, delivered, cancelled
\* is answered 400 and changes no order; hence every persisted order
\* status is one of the six, always.
C17_OnlyTheSixStatuses ==
    /\ [](\A o \in orders : o.status \in SixStatuses)
    /\ [][(UpdateServed(req', resp') /\ Requested(req').text \notin SixStatuses) =>
             (resp'.code = 400 /\ tables' = tables)]_vars

\* C17 witness: " Refunded " was asked for an existing order: 400, and the
\* order keeps the status its checkout gave it.
C17_Witness ==
    /\ UpdateServed(req, resp) /\ resp.code = 400 /\ resp.error = "Invalid status"
    /\ Requested(req) = StatusText("refunded", "raw")
    /\ \E o \in orders : o.id = req.data.order_id /\ o.status = final_status(o.payment_method)

\* C18: a status update with an allowed status for an order id that does
\* not exist is answered 404 (500 when the store fails first, which it
\* does on updates of order 1 only), creates no order and changes none.
C18_MissingOrderNotFound ==
    [][(/\ UpdateServed(req', resp')
        /\ Requested(req').text \in SixStatuses
        /\ \A o \in orders : o.id # req'.data.order_id) =>
          /\ resp'.code \in {404, 500}
          /\ resp'.code = 500 => req'.data.order_id = 1
          /\ tables' = tables]_vars

\* C18 witness: "cancelled" was asked for an id no order has while another
\* order exists: 404.
C18_Witness ==
    /\ UpdateServed(req, resp) /\ resp.code = 404 /\ resp.error = "Order not found"
    /\ Requested(req) = StatusText("cancelled", "plain")
    /\ orders # {} /\ \A o \in orders : o.id # req.data.order_id

StatusOf(tbl, order_id) == (CHOOSE o \in tbl : o.id = order_id).status

\* C19: for an existing order in any status s and any allowed status s',
\* the update is answered 200 and the order's status is s' afterwards; no
\* transition is refused, backwards ones and ones out of cancelled
\* included.  (The store's failures, injected on updates of order 1 to
\* cancelled, are answered 500 and change nothing.)
C19_EveryTransitionAllowed ==
    [][(/\ UpdateServed(req', resp')
        /\ Requested(req').text \in SixStatuses
        /\ \E o \in orders : o.id = req'.data.order_id) =>
          \/ /\ resp'.code = 200
             /\ resp'.body.status = Requested(req').text
             /\ StatusOf(orders', req'.data.order_id) = Requested(req').text
          \/ /\ resp'.code = 500 /\ tables' = tables
             /\ req'.data.order_id = 1 /\ Requested(req').text = "cancelled"]_vars

\* C19 witness: a paid card order was moved to cancelled and is now, by an
\* update answered 200, pending again.
C19_Witness ==
    /\ UpdateServed(req, resp) /\ resp.code = 200 /\ resp.body.status = "pending"
    /\ \E o \in orders :
          /\ o.id = req.data.order_id /\ o.payment_method = "card"
          /\ o.status = "pending"
    /\ \E o \in orders : o.id # req.data.order_id /\ o.status = "cancelled"

\* C20: a status update changes the status field of its target order and
\* nothing else: stock (no restocking on cancelled), order items, payment
\* details, carts, the other orders and the target's other fields stay as
\* they are; and no other operation changes or deletes an existing order
\* or order item row.
C20_UpdateTouchesStatusOnly ==
    [][/\ UpdateServed(req', resp') =>
            /\ perfumes' = perfumes /\ carts' = carts
            /\ order_items' = order_items /\ payment_details' = payment_details
            /\ auto_inc' = auto_inc
            /\ {o.id : o \in orders'} = {o.id : o \in orders}
            /\ Cardinality(orders') = Cardinality(orders)
            /\ \A o \in orders :
                 IF o.id = req'.data.order_id
                 THEN \E n \in orders' :
                         /\ n.id = o.id /\ n.user_id = o.user_id
                         /\ n.total_amount = o.total_amount
                         /\ n.payment_method = o.payment_method
                 ELSE o \in orders'
       /\ ~UpdateServed(req', resp') =>
            /\ orders \subseteq orders'
            /\ order_items \subseteq order_items']_vars

\* C20 witness: an order was cancelled by an update answered 200 while its
\* perfume is sold out, its items and payment row are on record, another
\* order exists and a cart holds a row.
C20_Witness ==
    /\ UpdateServed(req, resp) /\ resp.code = 200 /\ resp.body.status = "cancelled"
    /\ \E o \in orders :
          /\ o.id = req.data.order_id /\ o.status = "cancelled"
          /\ PaymentRows(o.id) # {}
          /\ \E i \in order_items : i.order_id = o.id /\ perfumes[i.perfume_id].quantity = 0
    /\ \E o \in orders : o.id # req.data.order_id /\ o.status # "cancelled"
    /\ carts # {}

\* A later checkout was committed beside an order the admin has shipped.
C20_CheckoutBesideShipped ==
    /\ Placed(req, resp)
    /\ \E o \in orders : o.id # resp.body.order_id /\ o.status = "shipped"

(***************************************************************************)
(* Properties of SpecCart: removal                                         *)
(***************************************************************************)
\* The rows of user u for perfume p, whatever their size.
RowsFor(tbl, u, p) == {r \in tbl : r.user_id = u /\ r.perfume_id = p}
\* A served DELETE /cart/<perfume_id> that the store did not fail.
RemoveServed(rq, rs) ==
    rs.op = "remove_from_cart" /\ rs.user # NoUser /\ rs.code # 500

\* C21: a removal deletes every cart row of the caller for the perfume, of
\* every size, and no other row, and is answered 200; when the caller has
\* no row for the perfume it is answered 404 and the cart is unchanged.  (A
\* store failure is answered 500 and changes nothing.)
C21_RemoveDeletesAllSizes ==
    [][/\ RemoveServed(req', resp') =>
            LET u == resp'.user
                p == req'.data.perfume_id
            IN /\ RowsFor(carts, u, p) # {} =>
                    /\ resp'.code = 200
                    /\ carts' = carts \ RowsFor(carts, u, p)
               /\ RowsFor(carts, u, p) = {} =>
                    /\ resp'.code = 404
                    /\ carts' = carts /\ ledger' = ledger
               /\ UNCHANGED <<perfumes, orders, order_items, payment_details>>
       /\ (resp'.op = "remove_from_cart" /\ ~RemoveServed(req', resp')) =>
            tables' = tables]_vars

\* C21 witness: the removal of perfume 1, which the cart holds in the
\* sizes 50ml and 100ml, was answered 200; no row and no ledger entry of
\* perfume 1 is left and the row of perfume 2 is.
C21_Witness ==
    /\ resp.op = "remove_from_cart" /\ resp.code = 200 /\ req.data.perfume_id = 1
    /\ RowsFor(carts, resp.user, 1) = {}
    /\ RowsFor(carts, resp.user, 2) # {}
    /\ {e \in ledger : e.key[2] = 1} = {}

\* A removal of a perfume the cart does not hold was answered 404 while
\* the cart holds another perfume.
C21_NotInCart ==
    /\ resp.op = "remove_from_cart" /\ resp.code = 404
    /\ RowsFor(carts, resp.user, req.data.perfume_id) = {}
    /\ carts # {}

(***************************************************************************)
(* Properties of SpecUsers: the cart view                                  *)
(***************************************************************************)
\* C22: the cart view lists each cart row of the caller with in_stock =
\* (the perfume's stock at the time of the view >= the row's quantity), so
\* a row left unchanged reads in_stock = false once another user's
\* checkout has taken the stock below its quantity; the view changes no
\* state.
C22_InStockComputedAtView ==
    [][resp'.op = "view_cart" =>
         /\ tables' = tables /\ auto_inc' = auto_inc
         /\ resp'.user # NoUser =>
              /\ resp'.code = 200
              /\ \A c \in CartOf(carts, resp'.user) :
                    \E r \in resp'.body.rows :
                       /\ r.perfume_id = c.perfume_id /\ r.quantity = c.quantity
                       /\ r.stock = perfumes[c.perfume_id].quantity
                       /\ r.in_stock <=> perfumes[c.perfume_id].quantity >= c.quantity
              /\ Cardinality(resp'.body.rows) = Cardinality(CartOf(carts, resp'.user))]_vars

\* C22 witness: the caller's cart holds MaxStock units of perfume 1, added
\* while they were in stock; the other customer's order has taken one;
\* the view lists the row with in_stock = false.
C22_Witness ==
    /\ resp.op = "view_cart" /\ resp.code = 200
    /\ \E c \in CartOf(carts, resp.user) :
          /\ c.perfume_id = 1 /\ c.quantity = MaxStock
          /\ \E r \in resp.body.rows :
                r.perfume_id = 1 /\ r.quantity = c.quantity /\ ~r.in_stock
    /\ \E o \in orders : o.user_id = OtherCustomer(resp.user)
    /\ \E i \in order_items : i.perfume_id = 1
    /\ perfumes[1].quantity = MaxStock - 1

\* A row whose quantity equals the stock is listed with in_stock = true.
C22_AtStockInStock ==
    /\ resp.op = "view_cart" /\ resp.code = 200
    /\ \E r \in resp.body.rows : r.stock = r.quantity /\ r.in_stock

(***************************************************************************)
(* Properties of SpecRecent                                                *)
(***************************************************************************)
\* The limit in force: the requested number held within 1 .. 20, 5 when
\* none is given.
LimitInForce(arg) ==
    IF arg.kind # "int" THEN 5
    ELSE IF arg.value < 1 THEN 1
    ELSE IF arg.value > 20 THEN 20
    ELSE arg.value

Min(a, b) == IF a < b THEN a ELSE b
OrdersOf(u) == {o \in orders : o.user_id = u}

\* C23: for a customer, recent-orders always answers 200; when the store
\* is unreachable or a query fails the list is empty and a message says
\* so; otherwise it lists the caller's newest orders, the limit in force
\* at most, none of another user; the request changes nothing.
C23_RecentOrdersAlways200 ==
    /\ [](\A v \in (0 - 2) .. 22 :
             /\ clamp_limit(v) >= 1 /\ clamp_limit(v) <= 20
             /\ (v >= 1 /\ v <= 20) => clamp_limit(v) = v
             /\ parse_limit(NoLimit) = 5 /\ parse_limit(TextLimit) = 5)
    /\ [][(resp'.op = "recent_orders" /\ resp'.user # NoUser) =>
            LET u == resp'.user
                lim == LimitInForce(req'.data.limit)
                rows == resp'.body.rows
            IN /\ resp'.code = 200
               /\ tables' = tables /\ auto_inc' = auto_inc
               /\ resp'.error \in {"Loading...", "Try again", "No orders yet",
                                   "Your latest orders"}
               /\ Cardinality(rows) <= lim
               /\ resp'.body.total = Cardinality(rows)
               /\ \A r \in rows : \E o \in OrdersOf(u) : o.id = r.id /\ o.status = r.status
               /\ resp'.error \in {"Loading...", "Try again"} => rows = {}
               /\ resp'.error = "No orders yet" <=> (OrdersOf(u) = {} /\ resp'.error # "Loading..."
                                                     /\ resp'.error # "Try again")
               /\ resp'.error = "Your latest orders" =>
                    /\ Cardinality(rows) = Min(lim, Cardinality(OrdersOf(u)))
                    /\ \A r \in rows : \A o \in OrdersOf(u) :
                          o.id > r.id => \E x \in rows : x.id = o.id]_vars

\* C23 witness: with limit 0 the caller, who has two orders beside an
\* order of the other customer, was shown the newest one only.
C23_Witness ==
    /\ resp.op = "recent_orders" /\ resp.code = 200 /\ resp.error = "Your latest orders"
    /\ req.data.limit = LimitArg(0)
    /\ Cardinality(OrdersOf(resp.user)) = 2
    /\ Cardinality(resp.body.rows) = 1
    /\ \E o \in orders : o.user_id = OtherCustomer(resp.user)

\* A query failed: 200 with an empty list although the caller has orders.
C23_Degraded ==
    /\ resp.op = "recent_orders" /\ resp.code = 200 /\ resp.error = "Try again"
    /\ resp.body.rows = {} /\ OrdersOf(resp.user) # {}

\* The store was unreachable: 200 with an empty list.
C23_Unreachable ==
    /\ resp.op = "recent_orders" /\ resp.code = 200 /\ resp.error = "Loading..."
    /\ resp.body.rows = {} /\ OrdersOf(resp.user) # {}

\* With limit 1 the caller's two orders are cut to the newest.
C23_Limited ==
    /\ resp.op = "recent_orders" /\ resp.error = "Your latest orders"
    /\ req.data.limit = LimitArg(1)
    /\ Cardinality(OrdersOf(resp.user)) = 2 /\ Cardinality(resp.body.rows) = 1

(***************************************************************************)
(* Properties of SpecValidate                                              *)
(***************************************************************************)
\* The answers to a request body that fails the checks made before the
\* connection is opened.
BodyErrors ==
    {"Missing required field", "payment_method must be 'card' or 'cod'",
     "Items must be a non-empty list", "Shipping field is required and cannot be empty",
     "Card cardName is required", "Card cardNumber is required", "Invalid card number",
     "Card expiry is required", "Card cvv is required", "CVV must be 3 or 4 digits"}
\* The answers to a line that is malformed or asks for no unit.
LineErrors == {"Invalid item data format", "Quantity must be positive"}

ValidationRejected(errors) ==
    /\ resp'.op = "checkout" /\ resp'.user # NoUser
    /\ resp'.code = 400 /\ resp'.error \in errors

\* C24: a checkout rejected for a validation error, a malformed line and a
\* non-positive line quantity included, is rejected before the request
\* has issued any write: the orders counter has not moved and the tables
\* are as they were.
C24_ValidationBeforeAnyWrite ==
    [][ValidationRejected(BodyErrors \cup LineErrors) =>
            auto_inc' = auto_inc /\ tables' = tables]_vars

\* What holds: the body checks come before any write, and the line checks
\* leave the tables as they were.
C24_BodyValidationBeforeAnyWrite ==
    [][/\ ValidationRejected(BodyErrors) => auto_inc' = auto_inc /\ tables' = tables
       /\ ValidationRejected(LineErrors) => tables' = tables]_vars

\* A checkout whose second line asks for no unit was rejected after the
\* order had been inserted: the counter has moved, no order is stored.
C24_RejectedAfterInsert ==
    /\ resp.op = "checkout" /\ resp.code = 400 /\ resp.error = "Quantity must be positive"
    /\ Len(req.data.items) = 2
    /\ auto_inc = 1 /\ orders = {}

(***************************************************************************)
(* Properties of SpecCard                                                  *)
(***************************************************************************)
Unspaced(text) == SelectSeq(text, LAMBDA c : c # " ")
AllDigits(text) == \A i \in 1 .. Len(text) : text[i] \in DigitChars

\* The four fields are present and not blank, the number without its
\* spaces has 13 to 19 characters, the CVV is 3 or 4 digits.
CardOfLength(card) ==
    /\ card.cardName \notin {"", " "} /\ card.expiry \notin {"", " "}
    /\ Unspaced(card.cardNumber) # <<>> /\ Unspaced(card.cvv) # <<>>
    /\ Len(Unspaced(card.cardNumber)) \in 13 .. 19
    /\ AllDigits(card.cvv) /\ Len(card.cvv) \in {3, 4}
\* The same, and the number without its spaces is made of digits.
CardOfDigits(card) == CardOfLength(card) /\ AllDigits(Unspaced(card.cardNumber))

CardServed ==
    /\ resp'.op = "checkout" /\ resp'.user # NoUser
    /\ req'.data.has_fields /\ req'.data.shipping_ok /\ req'.data.items # <<>>

\* wellFormed: what is required of the card the request carries.
CardPolicy(wellFormed) ==
    CardServed =>
        IF req'.data.payment_method = "card"
        THEN IF wellFormed
             THEN auto_inc' = auto_inc + 1
             ELSE /\ resp'.code = 400
                  /\ auto_inc' = auto_inc /\ tables' = tables
        ELSE req'.data.payment_method = "cod" => auto_inc' = auto_inc + 1

\* C25: a card checkout passes validation only if name, number, expiry and
\* CVV are present and not blank, the number without its spaces is 13 to
\* 19 digits and the CVV is 3 or 4 digits; every other card payload is
\* answered 400 and creates no order; a cod checkout needs no card field.
C25_CardAcceptedOnlyIfWellFormed == [][CardPolicy(CardOfDigits(req'.data.card))]_vars

\* What holds: the same with the number's length checked, not its
\* characters.
C25_CardNumberLengthOnly == [][CardPolicy(CardOfLength(req'.data.card))]_vars

\* A card checkout whose number is thirteen letters was placed and paid.
C25_LettersAccepted ==
    /\ resp.op = "checkout" /\ resp.code = 201
    /\ req.data.card.cardNumber = Repeat("x", 13)
    /\ \E o \in orders : o.id = resp.body.order_id /\ o.status = "paid"
    /\ \E p \in payment_details : p.card_last4 = Repeat("x", 4)

(***************************************************************************)
(* Properties of SpecSignup                                                *)
(***************************************************************************)
SignupRole(op) == IF op = "admin_signup" THEN ROLE_ADMIN ELSE ROLE_CUSTOMER
LoginRole(op) == IF op = "admin_login" THEN ROLE_ADMIN ELSE ROLE_CUSTOMER
StoredRole(user_id) == {u.role_id : u \in {x \in users : x.id = user_id}}

\* C26: admin signup stores role Admin and customer signup role Customer,
\* no operation changes a stored user, and the role in every token a login
\* issues is the stored role of its user: admin login issues tokens for
\* Admin users only and customer login for Customer users only, the other
\* kind is answered 401, and an Admin-only endpoint serves no token of a
\* user who signed up as a customer.
C26_TokenRoleIsSignupRole ==
    /\ [](\A k \in issued : StoredRole(k.user_id) = {k.role_id})
    /\ [][/\ users \subseteq users'
          /\ \A u \in users' \ users :
                /\ resp'.op \in {"admin_signup", "customer_signup"}
                /\ resp'.code = 201 /\ u.role_id = SignupRole(resp'.op)
          /\ \A k \in issued' \ issued :
                /\ resp'.op \in {"admin_login", "customer_login"}
                /\ k.role_id = LoginRole(resp'.op)
                /\ StoredRole(k.user_id) = {k.role_id}
          /\ (resp'.op \in {"admin_login", "customer_login"} /\ resp'.code = 200) =>
                StoredRole(resp'.user) = {LoginRole(resp'.op)}
          /\ (/\ resp'.op \in {"admin_login", "customer_login"}
              /\ \E u \in users : /\ u.username = req'.data.username
                                  /\ u.role_id # LoginRole(resp'.op)) =>
                resp'.code = 401 /\ issued' = issued
          /\ (resp'.op = "admin_list_payments" /\ resp'.code = 200) =>
                StoredRole(resp'.user) = {ROLE_ADMIN}
          /\ (resp'.op = "view_cart" /\ resp'.code = 200) =>
                StoredRole(resp'.user) = {ROLE_CUSTOMER}]_vars

\* C26 witness: a user who signed up as a customer has logged in as a
\* customer, and the admin login with the same credentials was answered 401.
C26_Witness ==
    /\ resp.op = "admin_login" /\ resp.code = 401
    /\ \E u \in users :
          /\ u.id > 3 /\ u.role_id = ROLE_CUSTOMER
          /\ u.username = req.data.username
          /\ u.password_hash = <<"pbkdf2", req.data.password>>
          /\ \E k \in issued : k.user_id = u.id /\ k.role_id = ROLE_CUSTOMER

\* The Admin-only endpoint refused the token of a signed-up customer.
C26_CustomerTokenForbidden ==
    /\ resp.op = "admin_list_payments" /\ resp.code = 403
    /\ req.hdr.tok.user_id > 3 /\ req.hdr.tok \in issued

\* A user who signed up as an admin was served by the Admin-only endpoint.
C26_SignedUpAdminServed ==
    /\ resp.op = "admin_list_payments" /\ resp.code = 200 /\ resp.user > 3

(***************************************************************************)
(* Properties of SpecSignupRace                                            *)
(***************************************************************************)
SharesKey(u, v) ==
    u.username = v.username \/ u.email = v.email \/ u.phone_number = v.phone_number
\* The request names the username, the email or the phone number of a
\* stored user.
DuplicatesStored(data) ==
    \E u \in users : \/ u.username = data.username \/ u.email = data.email
                     \/ u.phone_number = data.phone_number
SignupAnswered ==
    /\ resp'.op \in {"admin_signup", "customer_signup"} /\ resp'.code # 0
    /\ req'.data.kind = "json"

\* C27: however admin and customer signups follow and interleave, no two
\* stored users share a username, an email or a phone number; a signup
\* that names the username, email or phone number of a stored user of
\* either role is answered 400 (500 when the store gives up on it) and
\* stores no user.
C27_UsersUnique ==
    /\ [](\A u, v \in users : u # v => ~SharesKey(u, v) /\ u.id # v.id)
    /\ [][/\ users \subseteq users'
          /\ \A r \in users' \ users : \A u \in users : ~SharesKey(r, u)
          /\ (SignupAnswered /\ validate_signup(req'.data) = ""
                /\ DuplicatesStored(req'.data)) =>
                /\ users' = users
                /\ resp'.code \in {400, 500}
                /\ resp'.code = 500 => \E c \in ConnIds : conns[c].pc = "inserted"
          /\ (SignupAnswered /\ resp'.code = 400
                /\ validate_signup(req'.data) = "") => DuplicatesStored(req'.data)]_vars

\* C27 witness: two users have signed up, and a customer signup naming
\* the email of one of them, stored by an admin signup, under another
\* username was answered 400.
C27_Witness ==
    /\ resp.op = "customer_signup" /\ resp.code = 400
    /\ resp.error = "Email already exists"
    /\ \E u \in users : u.id > 3 /\ u.role_id = ROLE_ADMIN /\ u.email = req.data.email
                        /\ u.username # req.data.username
    /\ Cardinality(users) = 5

\* A signup naming a username stored by an earlier signup was answered
\* 400 while the signup on the other connection was not yet committed.
C27_SecondOfTwoRejected ==
    /\ resp.code = 400 /\ resp.error = "Username already exists"
    /\ req.data.username \in NewNames
    /\ \E c \in ConnIds : conns[c].pc = "inserted"

(***************************************************************************)
(* Properties of SpecAuth: the order of the middleware's checks            *)
(***************************************************************************)
RequiredRole(op) == IF op \in AdminOnly THEN ROLE_ADMIN ELSE ROLE_CUSTOMER

\* The answer the four checks give, in their order, to header hdr at time
\* t on an endpoint for `role`; <<0, "">>: all four pass.
MiddlewareAnswer(hdr, t, role) ==
    IF ~hdr.present THEN <<401, "Token missing">>
    ELSE IF hdr.bearer THEN <<401, "Use raw token, not Bearer">>
    ELSE IF hdr.tok.sig # "good" THEN <<401, "Invalid token">>
    ELSE IF hdr.tok.exp < t THEN <<401, "Token expired">>
    ELSE IF hdr.tok.role_id # role
    THEN <<403, IF role = ROLE_ADMIN THEN "Access denied - Admin only"
                ELSE "Access denied - Customer only">>
    ELSE <<0, "">>

\* C28: on the Customer-only and Admin-only endpoints the middleware
\* answers a missing header 401, a bearer-prefixed value 401, a token that
\* does not decode 401 (expired or invalid), and only then a role that
\* does not match 403: an expired or badly signed token is answered 401
\* whatever its role, 403 is given to validly signed unexpired tokens
\* only, and the handler runs, with the token's user bound, only when all
\* four checks pass; a refused request changes nothing.
C28_MiddlewareOrder ==
    [][(req'.op \in AdminOnly \cup CustomerOnly /\ resp'.op = req'.op) =>
          LET answer == MiddlewareAnswer(req'.hdr, now, RequiredRole(req'.op)) IN
          IF answer[1] # 0
          THEN /\ resp'.code = answer[1] /\ resp'.error = answer[2]
               /\ resp'.user = NoUser /\ resp'.body = NoBody
               /\ tables' = tables /\ auto_inc' = auto_inc /\ ledger' = ledger
          ELSE /\ resp'.user = req'.hdr.tok.user_id
               /\ resp'.code \notin {401, 403}]_vars

\* C28 witness: an expired Admin token on a Customer-only endpoint was
\* answered 401 "Token expired", not 403.
C28_Witness ==
    /\ req.op \in CustomerOnly /\ resp.op = req.op
    /\ req.hdr.present /\ ~req.hdr.bearer
    /\ req.hdr.tok.sig = "good" /\ req.hdr.tok.exp < now
    /\ req.hdr.tok.role_id = ROLE_ADMIN
    /\ resp.code = 401 /\ resp.error = "Token expired"

\* A badly signed Customer token on an Admin-only endpoint was answered
\* 401 "Invalid token".
C28_ForgedWrongRole ==
    /\ req.op \in AdminOnly /\ resp.op = req.op
    /\ req.hdr.present /\ ~req.hdr.bearer
    /\ req.hdr.tok.sig = "bad" /\ req.hdr.tok.role_id = ROLE_CUSTOMER
    /\ resp.code = 401 /\ resp.error = "Invalid token"

\* All four checks passed and the handler answered for the token's user.
C28_HandlerRan ==
    /\ req.op = "checkout" /\ resp.op = "checkout" /\ resp.code = 201
    /\ resp.user = req.hdr.tok.user_id /\ orders # {}

(***************************************************************************)
(* Properties of SpecLines                                                 *)
(***************************************************************************)
\* The units the lines ask of perfume p, all lines together.
RECURSIVE LinesQuantity(_, _)
LinesQuantity(items, p) ==
    IF items = <<>> THEN 0
    ELSE (IF Head(items).perfume_id = p THEN Head(items).quantity ELSE 0)
         + LinesQuantity(Tail(items), p)

\* The quantity a cart key holds after the additions qs, taken in order
\* from `held`: an addition that would pass the stock is left out.
RECURSIVE HeldAfter(_, _, _)
HeldAfter(qs, held, stock) ==
    IF qs = <<>> THEN held
    ELSE HeldAfter(Tail(qs),
                   IF held + Head(qs) <= stock THEN held + Head(qs) ELSE held, stock)

\* The quantities of the items of the batch that fall on the key of `item`.
SameKey(items, item) ==
    LET same == SelectSeq(items, LAMBDA x : /\ x.perfume_id = item.perfume_id
                                            /\ AskedSize(x) = AskedSize(item))
    IN [i \in 1 .. Len(same) |-> AskedQty(same[i])]

LinesServed ==
    /\ req'.op = "checkout" /\ resp'.op = "checkout" /\ resp'.user # NoUser
    /\ \A i \in 1 .. Len(req'.data.items) :
          /\ req'.data.items[i].kind = "ok" /\ req'.data.items[i].quantity > 0
          /\ select_available_perfume(perfumes, req'.data.items[i].perfume_id) # {}
ItemsServed ==
    /\ req'.op = "add_to_cart" /\ resp'.op = "add_to_cart" /\ resp'.user # NoUser
    /\ \A i \in 1 .. Len(req'.data) :
          /\ req'.data[i].kind = "ok"
          /\ select_available_perfume(perfumes, req'.data[i].perfume_id) # {}

\* C29: within one checkout every line is checked against the stock the
\* earlier lines of the same call have left: the order is placed exactly
\* when, for every perfume, its lines together stay within the stock, and
\* is otherwise refused and rolled back; within one batch every item is
\* checked against the cart quantity the earlier items of the batch have
\* raised: a key ends with the additions that, taken in order, stay within
\* the stock.
C29_EarlierLinesCount ==
    [][/\ LinesServed =>
            LET items == req'.data.items IN
            /\ resp'.code = 201 <=>
                  \A p \in PerfumeIds : LinesQuantity(items, p) <= perfumes[p].quantity
            /\ resp'.code = 201 =>
                  \A p \in PerfumeIds :
                     perfumes'[p].quantity = perfumes[p].quantity - LinesQuantity(items, p)
            /\ resp'.code # 201 => resp'.code = 400 /\ tables' = tables
       /\ ItemsServed =>
            LET items == req'.data IN
            /\ \A i \in 1 .. Len(items) :
                  Held(carts', resp'.user, items[i]) =
                     HeldAfter(SameKey(items, items[i]), Held(carts, resp'.user, items[i]),
                               perfumes[items[i].perfume_id].quantity)
            /\ Len(resp'.body.added) + Len(resp'.body.errors) = Len(items)]_vars

\* C29 witness: an order of two lines for perfume 1, each within the stock
\* and together over it, was refused; nothing was stored.
C29_Witness ==
    /\ req.op = "checkout" /\ resp.op = "checkout" /\ resp.code = 400
    /\ Len(req.data.items) = 2
    /\ \A i \in 1 .. 2 : /\ req.data.items[i].perfume_id = 1
                         /\ req.data.items[i].quantity <= perfumes[1].quantity
    /\ LinesQuantity(req.data.items, 1) > perfumes[1].quantity
    /\ orders = {} /\ order_items = {}

\* A batch of two items for one key, each within the stock on an empty
\* cart and together over it: the first was added, the second refused.
C29_SecondItemRefused ==
    /\ req.op = "add_to_cart" /\ resp.op = "add_to_cart" /\ resp.code = 207
    /\ Len(req.data) = 2
    /\ req.data[1] = CartItem(1, 1, Null) /\ req.data[2] = CartItem(1, MaxStock, Null)
    /\ perfumes[1].quantity = MaxStock
    /\ Held(carts, resp.user, req.data[1]) = 1
    /\ Len(resp.body.added) = 1 /\ Len(resp.body.errors) = 1

\* Two lines for perfume 1 that together take the whole stock were placed.
C29_TogetherWithinStock ==
    /\ req.op = "checkout" /\ resp.code = 201
    /\ Len(req.data.items) = 2 /\ LinesQuantity(req.data.items, 1) = MaxStock
    /\ perfumes[1].quantity = 0

(***************************************************************************)
(* Properties of SpecPending                                               *)
(***************************************************************************)
OrderReads == {"get_orders", "recent_orders", "admin_list_orders", "admin_get_order"}
\* The orders a read has returned, each with the status it shows.
Shown(rs) ==
    IF rs.op = "admin_get_order"
    THEN {[id |-> r.order.id, status |-> r.order.status] : r \in rs.body.rows}
    ELSE {[id |-> r.id, status |-> r.status] : r \in rs.body.rows}
\* The checkouts that have inserted their order and not yet committed.
InFlight == {c \in ConnIds : conns[c].order_id # 0 /\ conns[c].pc \notin {"idle", "done"}}

\* The step is a request answered at once, not a statement of a checkout
\* under way.
Answered == conns' = conns

\* C30: while checkouts run interleaved with order reads and admin status
\* updates, the status 'pending' is never seen: a read returns committed
\* orders only, none of a checkout that has not committed; a status update
\* does not find such an order; an order appears with the status paid or
\* cod_pending and keeps it until an admin update changes it.
C30_PendingNeverObservable ==
    /\ [](\A o \in orders : o.status # "pending" /\ o.id \notin {conns[c].order_id : c \in InFlight})
    /\ [][/\ (Answered /\ resp'.op \in OrderReads /\ resp'.user # NoUser) =>
                /\ \A r \in Shown(resp') :
                      /\ r.status # "pending"
                      /\ r.id \notin {conns[c].order_id : c \in InFlight}
                      /\ \E o \in orders : o.id = r.id /\ o.status = r.status
                /\ orders' = orders
          /\ (/\ Answered
              /\ resp'.op = "admin_update_order_status" /\ resp'.user # NoUser
              /\ req'.data.order_id \in {conns[c].order_id : c \in InFlight}) =>
                resp'.code # 200 /\ orders' = orders
          /\ \A o \in orders' \ orders :
                \/ /\ o.status = (IF o.payment_method = "card" THEN "paid" ELSE "cod_pending")
                   /\ \E c \in InFlight : conns[c].order_id = o.id /\ conns'[c].pc = "done"
                \/ /\ Answered
                   /\ resp'.op = "admin_update_order_status" /\ resp'.code = 200
                   /\ req'.data.order_id = o.id
                   /\ \E x \in orders : x.id = o.id]_vars

\* C30 witness: the admin listed the orders while a checkout had inserted
\* its order and not committed; the list shows the committed order only.
C30_Witness ==
    /\ resp.op = "admin_list_orders" /\ resp.code = 200
    /\ InFlight # {}
    /\ Cardinality(orders) = 1 /\ Cardinality(resp.body.rows) = 1
    /\ \A r \in resp.body.rows : r.status \in {"paid", "cod_pending"}

\* The customer whose checkout is still running asked for their orders and
\* got none.
C30_OwnOrderNotYetListed ==
    /\ resp.op = "get_orders" /\ resp.code = 200 /\ resp.body.rows = {}
    /\ \E c \in InFlight : conns[c].user_id = resp.user

\* A status update of an order not yet committed gave up.
C30_UpdateGaveUp ==
    /\ resp.op = "admin_update_order_status" /\ resp.code = 500
    /\ \E c \in InFlight : conns[c].order_id = req.data.order_id

\* A committed order was shipped beside a running checkout.
C30_ShippedBesideRunning ==
    /\ resp.op = "admin_update_order_status" /\ resp.code = 200
    /\ \E o \in orders : o.status = "shipped"
    /\ InFlight # {}


(***************************************************************************)
(* SpecStock: cart changes, checkouts and status updates run one after     *)
(* another, with no catalog edits                                          *)
(***************************************************************************)
\* Orders of one and two lines: lines that pass, a second line on the same
\* perfume, and second lines that are refused after the first line's stock
\* was deducted.
StockLines ==
    {<<Line(1, 1)>>, <<Line(1, MaxQty)>>,
     <<Line(1, 1), Line(1, 1)>>, <<Line(2, 1), Line(1, MaxStock + 1)>>,
     <<Line(1, 1), Line(3, 1)>>, <<Line(1, 1), Line(1, 0)>>}
StockCheckouts ==
    {<<Order("cod", l), NoFault>> : l \in StockLines}
    \cup {<<Order("card", <<Line(1, 1)>>), 5>>}
StockUpdates ==
    {<<o, StatusText(s, "plain"), NoStatus, NoFault>> :
        o \in {1, MissingOrder}, s \in {"cancelled", "refunded"}}

StockAdd ==
    add_to_cart({TokenOf(1, now)},
                {<<<<CartItem(1, q, Null)>>, NoFault>> : q \in {1, MaxQty}})
StockView == view_cart({TokenOf(1, now)}, {NoFault})
StockRemove == remove_from_cart({TokenOf(1, now)}, {1}, {NoFault})
StockCheckout ==
    /\ auto_inc < MaxOrders + 1
    /\ checkout({TokenOf(1, now)}, StockCheckouts)
StockUpdateStatus == admin_update_order_status(AdminHeaders(now), StockUpdates)

NextStock == StockAdd \/ StockView \/ StockRemove \/ StockCheckout \/ StockUpdateStatus

SpecStock == Init /\ [][NextStock]_vars

(***************************************************************************)
(* Properties of SpecStock                                                 *)
(***************************************************************************)
\* The units of perfume p in the stored order items.
Ordered(p) == SumQuantity({i \in order_items : i.perfume_id = p})

\* The operations that are no checkout.
StockBystanders ==
    {"add_to_cart", "remove_from_cart", "view_cart", "admin_update_order_status"}

\* C31: over every sequence of add-to-cart, remove, view, checkout and
\* status-update calls run one after another, each perfume's initial stock
\* equals its current stock plus the quantities of the stored order items
\* of the perfume; add-to-cart, remove, view and status update never
\* change a perfume's stock.
C31_StockConservation ==
    /\ [](\A p \in PerfumeIds : InitialQuantity(p) = perfumes[p].quantity + Ordered(p))
    /\ [][resp'.op \in StockBystanders => perfumes' = perfumes]_vars

\* C31 witness: two orders are stored, perfume 1 has gone from MaxStock to
\* none through their items, and the last call, a status update that
\* cancelled order 1, left the stock where the checkouts put it.
C31_Witness ==
    /\ resp.op = "admin_update_order_status" /\ resp.code = 200
    /\ \E o \in orders : o.id = 1 /\ o.status = "cancelled"
    /\ Cardinality(orders) = 2
    /\ perfumes[1].quantity = 0
    /\ Ordered(1) = MaxStock

\* A checkout whose second line was refused after the first line's stock
\* had been deducted left the stock and the order items as they were.
C31_RefusedLineRestored ==
    /\ resp.op = "checkout" /\ resp.code \in {400, 404}
    /\ Len(req.data.items) = 2
    /\ auto_inc = 1 /\ order_items = {}
    /\ \A p \in PerfumeIds : perfumes[p].quantity = InitialQuantity(p)


(***************************************************************************)
(* SpecQuantity: requests that ask for no unit or for a negative number    *)
(* of units, in the cart and at checkout                                   *)
(***************************************************************************)
\* The quantities a request may carry: negative, zero and positive.
Quantities == {0 - 1, 0, 1, MaxQty}

\* Orders with a line of a non-positive quantity: alone, after a line that
\* passed, and after a line that is refused for a reason of its own.
QuantityLines ==
    {<<Line(1, q)>> : q \in Quantities}
    \cup {<<Line(1, 1), Line(1, q)>> : q \in {0 - 1, 0, 1}}
    \cup {<<first, Line(1, 0)>> :
            first \in {Line(3, 1), Line(1, MaxStock + 1), MalformedLine}}
    \cup {<<Line(1, 0 - 1), Line(1, 1)>>}
QuantityCheckouts == {<<Order("cod", l), NoFault>> : l \in QuantityLines}
QuantityItems == {<<<<CartItem(1, q, Null)>>, NoFault>> : q \in Quantities}

\* Additions stop once a cart row has gone below zero, which keeps the
\* quantities within 0 - 1 .. MaxStock.
QuantityAdd ==
    /\ \A r \in carts : r.quantity >= 0
    /\ add_to_cart({TokenOf(1, now)}, QuantityItems)
QuantityView == view_cart({TokenOf(1, now)}, {NoFault})
QuantityRemove == remove_from_cart({TokenOf(1, now)}, {1}, {NoFault})
QuantityCheckout ==
    /\ auto_inc < MaxOrders + 1
    /\ checkout({TokenOf(1, now)}, QuantityCheckouts)

NextQuantity == QuantityAdd \/ QuantityView \/ QuantityRemove \/ QuantityCheckout

SpecQuantity == Init /\ [][NextQuantity]_vars

(***************************************************************************)
(* Properties of SpecQuantity                                              *)
(***************************************************************************)
\* The positions of the order's lines that ask for no unit or fewer.
NonPositiveLines(items) ==
    {k \in 1 .. Len(items) : items[k].kind = "ok" /\ items[k].quantity <= 0}

\* Every line before position k names a perfume on sale, is well formed,
\* and asks for a positive number of units.
EarlierLinesOnSale(items, k) ==
    \A j \in 1 .. (k - 1) :
        /\ items[j].kind = "ok"
        /\ items[j].quantity >= 1
        /\ items[j].perfume_id \in PerfumeIds
        /\ CatalogAvailable(items[j].perfume_id)

C32_EarlierLineNotOnSale ==
    /\ resp.op = "checkout" /\ resp.code = 404
    /\ NonPositiveLines(req.data.items) = {2}
    /\ orders = {}


\* C33: every cart row has quantity >= 1 in every reachable state, whatever
\* quantity, zero and negative integers included, the requests to add
\* items carry.
C33_CartRowsPositive == \A r \in carts : r.quantity >= 1

\* What holds: an addition stores the quantity the cart held for the key
\* plus the quantity asked, whatever its sign, when that total does not
\* exceed the stock; a row of quantity <= 0 comes from an addition that
\* asked for no unit or fewer, or from one on top of a negative row.
C33_RowHoldsTheTotal ==
    [][(OneItemOnSale(req') /\ resp'.op = "add_to_cart" /\ resp'.user # NoUser) =>
          LET item == req'.data[1]
              total == Held(carts, resp'.user, item) + AskedQty(item)
          IN /\ total <= perfumes[item.perfume_id].quantity =>
                    resp'.code = 201 /\ Held(carts', resp'.user, item) = total
             /\ \A r \in carts' \ carts :
                    r.quantity <= 0 =>
                        AskedQty(item) <= 0 \/ Held(carts, resp'.user, item) < 0]_vars

\* An addition of quantity 0 to an empty cart was answered 201 and left a
\* cart row of quantity 0.
C33_ZeroRowStored ==
    /\ resp.op = "add_to_cart" /\ resp.code = 201
    /\ AskedQty(req.data[1]) = 0
    /\ \E r \in carts : r.user_id = resp.user /\ r.perfume_id = 1 /\ r.quantity = 0

\* An addition of quantity 0 - 1 on top of a row of quantity 1 was answered
\* 201 and left the row with quantity 0.
C33_NegativeAdditionTakesRowToZero ==
    /\ resp.op = "add_to_cart" /\ resp.code = 201
    /\ AskedQty(req.data[1]) = 0 - 1
    /\ \E r \in carts : r.user_id = resp.user /\ r.perfume_id = 1 /\ r.quantity = 0


(***************************************************************************)
(* SpecResolve: add-to-cart, remove, checkout and status update, each on   *)
(* a connection of its own, statement by statement.  A DELETE and a        *)
(* SELECT ... FOR UPDATE lock what their WHERE clause covers, whether or   *)
(* not a row matches, until the transaction ends.                          *)
(***************************************************************************)
\* DELETE /cart/<perfume_id>: the connection is opened.
remove_begin(c, user_id, pid) ==
    /\ conns[c].pc = "idle"
    /\ conns' = [conns EXCEPT ![c] =
                    [IdleConn EXCEPT !.pc = "delete", !.user_id = user_id,
                                     !.items = <<[kind |-> "remove", perfume_id |-> pid]>>,
                                     !.i = 1]]
    /\ UNCHANGED <<tables, auto_inc, now, req, resp, ledger, issued, users>>

\* The carts keys that WHERE user_id = %s AND perfume_id = %s covers.
remove_range(user_id, pid) ==
    {<<user_id, pid, Coalesce(size)>> : size \in {Null, "50ml", "100ml"}}

RangeLockedByOther(c, range) == \E key \in range : KeyLockedByOther(c, key)

\* DELETE FROM carts WHERE user_id = %s AND perfume_id = %s;
\* if cursor.rowcount == 0: return 404 (the finally clause closes).
remove_delete(c) ==
    LET cn == conns[c]
        pid == cn.items[1].perfume_id
        range == remove_range(cn.user_id, pid)
        rowcount == Cardinality(carts \ delete_cart_rows(carts, cn.user_id, pid))
        locked == [cn EXCEPT !.keys = range]
    IN
    /\ cn.pc = "delete"
    /\ ~RangeLockedByOther(c, range)
    /\ conns' = [conns EXCEPT ![c] =
            IF rowcount = 0 THEN Discarded(locked, 404)
            ELSE [locked EXCEPT !.pc = "remove_commit"]]
    /\ UNCHANGED <<tables, auto_inc, now, req, resp, ledger, issued, users>>

\* The DELETE waits for a row and the store gives up: rollback, 500.
remove_lock_wait_fails(c) ==
    LET cn == conns[c] IN
    /\ cn.pc = "delete"
    /\ RangeLockedByOther(c, remove_range(cn.user_id, cn.items[1].perfume_id))
    /\ conns' = [conns EXCEPT ![c] = Discarded(cn, 500)]
    /\ UNCHANGED <<tables, auto_inc, now, req, resp, ledger, issued, users>>

\* conn.commit(); 200 "Item removed".
remove_commit(c) ==
    LET cn == conns[c] IN
    /\ cn.pc = "remove_commit"
    /\ carts' = delete_cart_rows(carts, cn.user_id, cn.items[1].perfume_id)
    /\ conns' = [conns EXCEPT ![c] = Returned(cn, 200)]
    /\ UNCHANGED <<perfumes, orders, order_items, payment_details,
                   auto_inc, now, req, resp, ledger, issued, users>>

\* PUT /admin/orders/<order_id>/status with a status that passes the
\* checks: the connection is opened.
update_begin(c, admin_id, order_id, status) ==
    /\ conns[c].pc = "idle"
    /\ Truthy(status) /\ is_allowed(strip_lower(status))
    /\ conns' = [conns EXCEPT ![c] =
                    [IdleConn EXCEPT !.pc = "lock_order", !.user_id = admin_id,
                                     !.items = <<[kind |-> "update", order_id |-> order_id,
                                                  status |-> strip_lower(status).text]>>,
                                     !.i = 1]]
    /\ UNCHANGED <<tables, auto_inc, now, req, resp, ledger, issued, users>>

\* The lock of an orders row, as a key of the connection: no user, the
\* order's id, the table.
order_key(order_id) == <<NoUser, order_id, "orders">>

\* The row is locked by an update under way, or was inserted by a checkout
\* that has not committed.
OrderLockedByOther(c, order_id) ==
    \/ KeyLockedByOther(c, order_key(order_id))
    \/ \E o \in uncommitted_orders : o.id = order_id

\* SELECT status FROM orders WHERE id = %s FOR UPDATE;
\* if not cursor.fetchone(): return 404 (the finally clause closes).
update_select_for_update(c) ==
    LET cn == conns[c]
        order_id == cn.items[1].order_id
        locked == [cn EXCEPT !.keys = {order_key(order_id)}]
    IN
    /\ cn.pc = "lock_order"
    /\ ~OrderLockedByOther(c, order_id)
    /\ conns' = [conns EXCEPT ![c] =
            IF select_order_for_update(orders, order_id) = {} THEN Discarded(locked, 404)
            ELSE [locked EXCEPT !.pc = "update_order"]]
    /\ UNCHANGED <<tables, auto_inc, now, req, resp, ledger, issued, users>>

\* The locking read waits for the row and the store gives up: rollback, 500.
update_lock_wait_fails(c) ==
    LET cn == conns[c] IN
    /\ cn.pc = "lock_order"
    /\ OrderLockedByOther(c, cn.items[1].order_id)
    /\ conns' = [conns EXCEPT ![c] = Discarded(cn, 500)]
    /\ UNCHANGED <<tables, auto_inc, now, req, resp, ledger, issued, users>>

\* UPDATE orders SET status = %s WHERE id = %s; conn.commit(); 200.
update_commit(c) ==
    LET cn == conns[c] IN
    /\ cn.pc = "update_order"
    /\ orders' = update_order_status(orders, cn.items[1].order_id, cn.items[1].status)
    /\ conns' = [conns EXCEPT ![c] = Returned(cn, 200)]
    /\ UNCHANGED <<perfumes, carts, order_items, payment_details,
                   auto_inc, now, req, resp, ledger, issued, users>>

ResolveItems == {CartItem(1, 1, Null), CartItem(3, 1, Null)}
ResolveLines == {<<Line(1, 1)>>, <<Line(1, 1), Line(1, 0)>>, <<Line(1, 1), Line(3, 1)>>}

\* Customer 1 adds and removes, customer 2 checks out, the admin updates.
ResolveAddBegin == \E c \in ConnIds, item \in ResolveItems : add_begin(c, 1, <<item>>)
ResolveRemoveBegin == \E c \in ConnIds, pid \in {1, 2} : remove_begin(c, 1, pid)
ResolveCheckoutBegin ==
    \E c \in ConnIds, items \in ResolveLines : checkout_begin(c, 2, Order("cod", items))
ResolveUpdateBegin ==
    \E c \in ConnIds, a \in Admins, id \in {1, MissingOrder} :
        update_begin(c, a, id, StatusText("shipped", "plain"))

\* The statements of the handler connection c runs.
ResolveStep(c) ==
    \/ add_select_perfume(c) \/ add_select_cart(c) \/ add_upsert(c)
    \/ add_lock_wait_fails(c) \/ add_commit(c)
    \/ remove_delete(c) \/ remove_lock_wait_fails(c) \/ remove_commit(c)
    \/ checkout_select_stock(c) \/ checkout_decrement(c)
    \/ checkout_lock_wait_fails(c) \/ checkout_commit(c)
    \/ update_select_for_update(c) \/ update_lock_wait_fails(c) \/ update_commit(c)

ResolveAddSelectPerfume == \E c \in ConnIds : add_select_perfume(c)
ResolveAddSelectCart == \E c \in ConnIds : add_select_cart(c)
ResolveAddUpsert == \E c \in ConnIds : add_upsert(c)
ResolveAddLockWaitFails == \E c \in ConnIds : add_lock_wait_fails(c)
ResolveAddCommit == \E c \in ConnIds : add_commit(c)
ResolveRemoveDelete == \E c \in ConnIds : remove_delete(c)
ResolveRemoveLockWaitFails == \E c \in ConnIds : remove_lock_wait_fails(c)
ResolveRemoveCommit == \E c \in ConnIds : remove_commit(c)
ResolveCheckoutSelectStock == \E c \in ConnIds : checkout_select_stock(c)
ResolveCheckoutDecrement == \E c \in ConnIds : checkout_decrement(c)
ResolveCheckoutLockWaitFails == \E c \in ConnIds : checkout_lock_wait_fails(c)
ResolveCheckoutCommit == \E c \in ConnIds : checkout_commit(c)
ResolveUpdateSelect == \E c \in ConnIds : update_select_for_update(c)
ResolveUpdateLockWaitFails == \E c \in ConnIds : update_lock_wait_fails(c)
ResolveUpdateCommit == \E c \in ConnIds : update_commit(c)

NextResolve ==
    \/ ResolveAddBegin \/ ResolveRemoveBegin \/ ResolveCheckoutBegin \/ ResolveUpdateBegin
    \/ ResolveAddSelectPerfume \/ ResolveAddSelectCart \/ ResolveAddUpsert
    \/ ResolveAddLockWaitFails \/ ResolveAddCommit
    \/ ResolveRemoveDelete \/ ResolveRemoveLockWaitFails \/ ResolveRemoveCommit
    \/ ResolveCheckoutSelectStock \/ ResolveCheckoutDecrement
    \/ ResolveCheckoutLockWaitFails \/ ResolveCheckoutCommit
    \/ ResolveUpdateSelect \/ ResolveUpdateLockWaitFails \/ ResolveUpdateCommit

\* One thread runs one request to completion: a handler that has a next
\* statement executes it.
SpecResolve ==
    /\ Init /\ [][NextResolve]_vars
    /\ \A c \in ConnIds : WF_vars(ResolveStep(c))


(***************************************************************************)
(* Properties of SpecResolve                                               *)
(***************************************************************************)
\* The operation a connection runs.
OpOf(cn) ==
    IF cn.items[1].kind = "remove" THEN "remove_from_cart"
    ELSE IF cn.items[1].kind = "update" THEN "admin_update_order_status"
    ELSE IF cn.order_id # 0 THEN "checkout"
    ELSE "add_to_cart"

\* The connection holds no snapshot and no lock: its transaction has ended.
Resolved(cn) == cn.snap = <<>> /\ cn.own = {} /\ cn.keys = {}

\* The answers of the success paths.
SuccessCodes == {200, 201, 207}

\* The step commits what connection c has written.
CommitsWrites(c) ==
    LET cn == conns[c] IN
    IF OpOf(cn) = "add_to_cart" THEN cn.rows # {} /\ cn.rows \subseteq carts'
    ELSE IF OpOf(cn) = "remove_from_cart"
    THEN /\ carts' # carts
         /\ \A r \in carts' : ~(r.user_id = cn.user_id /\ r.perfume_id = cn.items[1].perfume_id)
    ELSE IF OpOf(cn) = "checkout"
    THEN /\ \E o \in orders' \ orders : o.id = cn.order_id
         /\ cn.lines # {} /\ cn.lines \subseteq order_items'
    ELSE \E o \in orders' : o.id = cn.items[1].order_id /\ o.status = cn.items[1].status

\* C34: every add-to-cart, remove, checkout and status update that has
\* started ends with one answer, and its transaction has ended with it:
\* committed when the answer is a success, discarded with the tables as
\* they were on every other answer; a connection that has answered holds
\* no snapshot and no lock, and answers no second time.
C34_EveryRequestResolves ==
    /\ [](\A c \in ConnIds : conns[c].pc = "done" => Resolved(conns[c]))
    /\ [][\A c \in ConnIds :
            /\ conns[c].pc = "done" => conns'[c] = conns[c]
            /\ (conns[c].pc # "done" /\ conns'[c].pc = "done") =>
                  IF conns'[c].code \in SuccessCodes THEN CommitsWrites(c)
                  ELSE /\ conns'[c].code \in {400, 404, 500}
                       /\ tables' = tables
                       /\ conns'[c].lines = {} /\ conns'[c].rows = {}]_vars
    /\ \A c \in ConnIds : (conns[c].pc # "idle") ~> (conns[c].pc = "done")

\* C34 witness: a checkout whose second line asks for no unit was answered
\* 400 after its first line had locked the row of perfume 1; the other
\* connection's checkout for perfume 1 was answered 201, and only its unit
\* has left the stock.
C34_Witness ==
    \E c, d \in ConnIds :
        /\ conns[c].pc = "done" /\ conns[c].code = 400
        /\ Len(conns[c].items) = 2 /\ conns[c].items[2].quantity = 0
        /\ Resolved(conns[c])
        /\ conns[d].pc = "done" /\ conns[d].code = 201 /\ conns[d].order_id > conns[c].order_id
        /\ conns[d].order_id # 0 /\ conns[c].order_id # 0
        /\ perfumes[1].quantity = MaxStock - 1

\* A remove answered 404 beside an addition for the same key answered 201.
C34_RemoveNotFoundBesideAdd ==
    \E c, d \in ConnIds :
        /\ conns[c].pc = "done" /\ conns[c].code = 404
        /\ OpOf(conns[c]) = "remove_from_cart" /\ conns[c].items[1].perfume_id = 1
        /\ conns[d].pc = "done" /\ conns[d].code = 201 /\ OpOf(conns[d]) = "add_to_cart"
        /\ \E r \in carts : r.user_id = 1 /\ r.perfume_id = 1

\* A status update for order 1 answered 404 before the checkout that
\* stored order 1.
C34_UpdateNotFoundBeforeCheckout ==
    \E c, d \in ConnIds :
        /\ conns[c].pc = "done" /\ conns[c].code = 404
        /\ OpOf(conns[c]) = "admin_update_order_status" /\ conns[c].items[1].order_id = 1
        /\ conns[d].pc = "done" /\ conns[d].code = 201 /\ conns[d].order_id = 1
        /\ \E o \in orders : o.id = 1 /\ o.status = "cod_pending"

\* A remove that deleted a row, and a status update that found its order.
C34_RemoveCommitted ==
    \E c \in ConnIds :
        conns[c].pc = "done" /\ conns[c].code = 200 /\ OpOf(conns[c]) = "remove_from_cart"
C34_UpdateCommitted ==
    \E c \in ConnIds :
        /\ conns[c].pc = "done" /\ conns[c].code = 200
        /\ OpOf(conns[c]) = "admin_update_order_status"
        /\ \E o \in orders : o.status = "shipped"

\* A request gave up waiting for a lock another connection held.
C34_GaveUpWaiting ==
    \E c, d \in ConnIds :
        /\ conns[c].pc = "done" /\ conns[c].code = 500
        /\ conns[d].pc \notin {"idle", "done"} /\ ~Resolved(conns[d])

====
